---- MODULE Spec2Model ----
(***************************************************************************)
(* A model of the UPnP/SOAP collection pass of fritzbox_exporter:          *)
(* Collector.Collect -> Exporter.Collect -> request -> getActionResult ->  *)
(* call (with the Digest retry) -> parseSoapResponse, followed by          *)
(* addGatewayGeneric, getResult and the emission of the tuples.            *)
(* The device is the environment: every HTTP POST is answered by a         *)
(* nondeterministically chosen response.                                   *)
(***************************************************************************)
EXTENDS Integers, Sequences, FiniteSets, TLC

\* ------------------------------------------------------------------ bounds
MaxCount == 2        \* largest entry count the device reports
MaxErrors == 3       \* cap of the error counter: no further error is followed
MaxNonce == 1        \* distinct server nonces offered in a Digest challenge
MaxCNonce == 1       \* distinct outcomes of rand.Read for the client nonce
MaxUint32 == 7       \* stands for 2^32 - 1, the largest value of the nominal ui4
MaxUint64 == 15      \* stands for 2^64 - 1, the largest uint64

\* ------------------------------------------------------------ Go run-time
\* A value of type interface{} as it occurs in a result record:
\* t is the dynamic type, n the numeric payload, s the string payload.
StrVal(s) == [t |-> "string", n |-> 0, s |-> s]
U64Val(n) == [t |-> "uint64", n |-> n, s |-> ""]
I64Val(n) == [t |-> "int64", n |-> n, s |-> ""]
IntVal(n) == [t |-> "int", n |-> n, s |-> ""]
F64Val(n) == [t |-> "float64", n |-> n, s |-> ""]
BoolVal(b) == [t |-> "bool", n |-> IF b THEN 1 ELSE 0, s |-> ""]
NilVal == [t |-> "nil", n |-> 0, s |-> ""]

Digits == <<"0", "1", "2", "3", "4", "5", "6", "7", "8", "9">>

\* strconv / fmt: the decimal text of an integer.
RECURSIVE Itoa(_)
Itoa(n) ==
    IF n < 0 THEN "-" \o Itoa(-n)
    ELSE IF n < 10 THEN Digits[n + 1]
    ELSE Itoa(n \div 10) \o Digits[(n % 10) + 1]

\* The range of int64 (and of int on the 64-bit builds).
MaxInt64 == MaxUint64 \div 2
MinInt64 == (0 - MaxInt64) - 1
AtoiRange == MinInt64 .. MaxInt64

\* The base-10 texts strconv reads as the unsigned integer n: digits only,
\* leading zeros allowed.
UintTexts(n) == {Itoa(n), "0" \o Itoa(n)}

\* The base-10 texts strconv reads as the signed integer n: an optional sign
\* in front of the digits.
IntTexts(n) ==
    (IF n >= 0 THEN UintTexts(n) \cup {"+" \o t : t \in UintTexts(n)} ELSE {})
    \cup (IF n <= 0 THEN {"-" \o t : t \in UintTexts(0 - n)} ELSE {})

UintTextOf == [n \in 0..MaxUint64 |-> UintTexts(n)]
IntTextOf == [n \in AtoiRange |-> IntTexts(n)]

\* strconv.Atoi / ParseInt(s, 10, 64): the value whose text s is; a text that
\* is no signed decimal, or whose value is outside int64, is an error.
Atoi(s) ==
    IF \E n \in AtoiRange : s \in IntTextOf[n]
    THEN [ok |-> TRUE, n |-> CHOOSE n \in AtoiRange : s \in IntTextOf[n]]
    ELSE [ok |-> FALSE, n |-> 0]

\* strconv.ParseUint(s, 10, 64): a sign is a syntax error and the value is
\* at most the largest uint64.
ParseUint(s) ==
    IF \E n \in 0..MaxUint64 : s \in UintTextOf[n]
    THEN [ok |-> TRUE, n |-> CHOOSE n \in 0..MaxUint64 : s \in UintTextOf[n]]
    ELSE [ok |-> FALSE, n |-> 0]

\* fmt.Sprintf("%v", value)
SprintV(v) ==
    CASE v.t = "string" -> v.s
      [] v.t \in {"uint64", "int64", "int"} -> Itoa(v.n)
      [] v.t = "bool" -> (IF v.n = 1 THEN "true" ELSE "false")
      [] OTHER -> "<nil>"

\* ------------------------------------------------- the discovered services
\* Exporter.Services after LoadServices: serviceType -> Service.  Every
\* argument is linked to its state variable (fillServicesForDevice).
StateVariables ==
    [Count |-> "ui2", Status |-> "string", Delta |-> "i4",
     Index |-> "ui2", Value |-> "ui4", Name |-> "string"]

Arg(name, dir, sv) == [Name |-> name, Direction |-> dir, RelatedStateVariable |-> sv]

Services ==
    [WAN |-> [ControlURL |-> "/upnp/control/wan",
              Actions |->
                [GetInfo |-> <<Arg("NewCount", "out", "Count"),
                               Arg("NewStatus", "out", "Status"),
                               Arg("NewDelta", "out", "Delta")>>,
                 GetEntry |-> <<Arg("NewIndex", "in", "Index"),
                                Arg("NewValue", "out", "Value"),
                                Arg("NewName", "out", "Name")>>]]]

\* an ArgumentMap of the output arguments only
ArgumentMap_OutOnly(args) ==
    [n \in {args[i].Name : i \in {j \in 1..Len(args) : args[j].Direction = "out"}} |->
        LET last == CHOOSE i \in 1..Len(args) :
                      /\ args[i].Name = n
                      /\ \A j \in 1..Len(args) : args[j].Name = n => j <= i
        IN args[last]]

\* Action.ArgumentMap: argument name -> argument (the last one of a name wins).
ArgumentMap(args) ==
    [n \in {args[i].Name : i \in 1..Len(args)} |->
        LET last == CHOOSE i \in 1..Len(args) :
                      /\ args[i].Name = n
                      /\ \A j \in 1..Len(args) : args[j].Name = n => j <= i
        IN args[last]]

\* an IsGetOnly that asks for an output argument
IsGetOnly_AnyOut(action) ==
    \E i \in 1..Len(action.Arguments) : action.Arguments[i].Direction = "out"

\* Action.IsGetOnly
IsGetOnly(action) ==
    IF \E i \in 1..Len(action.Arguments) : action.Arguments[i].Direction = "in"
    THEN FALSE
    ELSE Len(action.Arguments) > 0

\* ---------------------------------------------------------- result records
\* A map[string]interface{}: nil is the Go nil map, m gives the value of every
\* key that can occur (AbsentVal for a key that is not in the map).
AbsentVal == [t |-> "absent", n |-> 0, s |-> ""]
Fields == (DOMAIN StateVariables) \cup {"gateway", "result"}
EmptyMap == [nil |-> FALSE, m |-> [f \in Fields |-> AbsentVal]]
NilMap == [nil |-> TRUE, m |-> [f \in Fields |-> AbsentVal]]
MapSet(r, k, v) == [r EXCEPT !.m[k] = v]
MapHas(r, k) == k \in Fields /\ r.m[k] # AbsentVal
MapGet(r, k) == IF MapHas(r, k) THEN r.m[k] ELSE NilVal

\* -------------------------------------------------------- response parsing
\* a conversion that leaves every known type as text
convertResult_Text(val, dataType) ==
    IF dataType \in {"string", "boolean", "ui1", "ui2", "ui4", "i4", "dateTime", "uuid"}
    THEN [err |-> FALSE, v |-> StrVal(val)]
    ELSE [err |-> TRUE, v |-> NilVal]

\* a conversion of the unsigned types to 32 bits
convertResult_Narrow(val, dataType) ==
    CASE dataType \in {"string", "dateTime", "uuid"} -> [err |-> FALSE, v |-> StrVal(val)]
      [] dataType = "boolean" -> [err |-> FALSE, v |-> BoolVal(val = "1")]
      [] dataType \in {"ui1", "ui2", "ui4"} ->
            (LET r == ParseUint(val) IN
             IF r.ok /\ r.n <= MaxUint32 THEN [err |-> FALSE, v |-> U64Val(r.n)]
             ELSE [err |-> TRUE, v |-> NilVal])
      [] dataType = "i4" ->
            (LET r == Atoi(val) IN
             IF r.ok THEN [err |-> FALSE, v |-> I64Val(r.n)]
             ELSE [err |-> TRUE, v |-> NilVal])
      [] OTHER -> [err |-> TRUE, v |-> NilVal]

\* convertResult
convertResult(val, dataType) ==
    CASE dataType = "string" -> [err |-> FALSE, v |-> StrVal(val)]
      [] dataType = "boolean" -> [err |-> FALSE, v |-> BoolVal(val = "1")]
      [] dataType \in {"ui1", "ui2", "ui4"} ->
            (LET r == ParseUint(val) IN
             IF r.ok THEN [err |-> FALSE, v |-> U64Val(r.n)]
             ELSE [err |-> TRUE, v |-> NilVal])
      [] dataType = "i4" ->
            (LET r == Atoi(val) IN
             IF r.ok THEN [err |-> FALSE, v |-> I64Val(r.n)]
             ELSE [err |-> TRUE, v |-> NilVal])
      [] dataType \in {"dateTime", "uuid"} -> [err |-> FALSE, v |-> StrVal(val)]
      [] OTHER -> [err |-> TRUE, v |-> NilVal]

\* A response body is the token stream the XML decoder delivers:
\* start element, character data, end element, or a syntax error.
Start(n) == [k |-> "start", v |-> n]
Chars(s) == [k |-> "chars", v |-> s]
End(n) == [k |-> "end", v |-> n]
BadToken == [k |-> "bad", v |-> ""]
Elem(n, s) == <<Start(n), Chars(s), End(n)>>

\* a parse that takes any other token after a matched start element as the
\* empty value
RECURSIVE parseFrom_Lenient(_, _, _, _)
parseFrom_Lenient(args, toks, i, result) ==
    IF i > Len(toks) THEN [err |-> FALSE, rec |-> result]
    ELSE IF toks[i].k = "bad" THEN [err |-> TRUE, rec |-> NilMap]
    ELSE IF toks[i].k = "start" /\ toks[i].v \in DOMAIN ArgumentMap(args) THEN
        LET arg == ArgumentMap(args)[toks[i].v]
            val == IF i + 1 <= Len(toks) /\ toks[i + 1].k = "chars" THEN toks[i + 1].v ELSE ""
            converted == convertResult(val, StateVariables[arg.RelatedStateVariable])
        IN IF converted.err THEN [err |-> TRUE, rec |-> NilMap]
           ELSE parseFrom_Lenient(args, toks, i + 1,
                                  MapSet(result, arg.RelatedStateVariable, converted.v))
    ELSE parseFrom_Lenient(args, toks, i + 1, result)

\* Action.parseSoapResponse: the loop over decoder.Token() from token i on.
RECURSIVE parseFrom(_, _, _, _)
parseFrom(args, toks, i, result) ==
    IF i > Len(toks) THEN [err |-> FALSE, rec |-> result]
    ELSE IF toks[i].k = "bad" THEN [err |-> TRUE, rec |-> NilMap]
    ELSE IF toks[i].k = "start" /\ toks[i].v \in DOMAIN ArgumentMap(args) THEN
        LET arg == ArgumentMap(args)[toks[i].v] IN
        IF i + 1 > Len(toks) \/ toks[i + 1].k \notin {"end", "chars"}
        THEN [err |-> TRUE, rec |-> NilMap]
        ELSE LET val == IF toks[i + 1].k = "end" THEN "" ELSE toks[i + 1].v
                 converted == convertResult(val, StateVariables[arg.RelatedStateVariable])
             IN IF converted.err THEN [err |-> TRUE, rec |-> NilMap]
                ELSE parseFrom(args, toks, i + 2,
                               MapSet(result, arg.RelatedStateVariable, converted.v))
    ELSE parseFrom(args, toks, i + 1, result)

parseSoapResponse(args, toks) == parseFrom(args, toks, 1, EmptyMap)

\* ------------------------------------------------------ the metric catalog
\* metric.ActionArg; set = FALSE is the nil pointer.
NoArgument == [set |-> FALSE, Name |-> "", IsIndex |-> FALSE, ProviderAction |-> "", Value |-> ""]
ActionArg(name, isIndex, provider, val) ==
    [set |-> TRUE, Name |-> name, IsIndex |-> isIndex, ProviderAction |-> provider, Value |-> val]

\* metric.Metric (the configured part)
Metric(service, action, arg, key, ok, labels) ==
    [Service |-> service, Action |-> action, ActionArgument |-> arg,
     ResultKey |-> key, OkValue |-> ok, VarLabels |-> labels]

MCount == Metric("WAN", "GetInfo", NoArgument, "Count", "", <<"gateway">>)
MStatus == Metric("WAN", "GetInfo", NoArgument, "Status", "Up", <<"gateway">>)
MDelta == Metric("WAN", "GetInfo", NoArgument, "Delta", "", <<"gateway">>)
MIndexed == Metric("WAN", "GetEntry", ActionArg("NewIndex", TRUE, "GetInfo", "Count"),
                   "Value", "", <<"gateway", "Name">>)
MIndexedName == Metric("WAN", "GetEntry", ActionArg("NewIndex", TRUE, "GetInfo", "Count"),
                       "Name", "Eth0", <<"gateway">>)
MLiteral == Metric("WAN", "GetEntry", ActionArg("NewIndex", FALSE, "", "0"),
                   "Value", "", <<"gateway">>)
MDerived == Metric("WAN", "GetEntry", ActionArg("NewIndex", FALSE, "GetInfo", "Count"),
                   "Value", "", <<"gateway">>)
MNoService == Metric("DSL", "GetInfo", NoArgument, "Count", "", <<"gateway">>)
MNoAction == Metric("WAN", "GetStatus", NoArgument, "Count", "", <<"gateway">>)
MBadCount == Metric("WAN", "GetEntry", ActionArg("NewIndex", TRUE, "GetInfo", "Status"),
                    "Value", "", <<"gateway">>)
MFixedIndex == Metric("WAN", "GetEntry", ActionArg("NewIndex", TRUE, "", "1"),
                      "Value", "", <<"gateway", "Name">>)
MNoField == Metric("WAN", "GetEntry", ActionArg("NewIndex", TRUE, "GetInfo", "Total"),
                   "Value", "", <<"gateway">>)
MNoProvider == Metric("WAN", "GetEntry", ActionArg("NewIndex", TRUE, "GetNone", "Count"),
                      "Value", "", <<"gateway">>)

\* The catalogs a run can be configured with (MetricsFile.Metrics).
Catalogs ==
    { <<MCount, MStatus>>,
      <<MDelta, MStatus>>,
      <<MIndexed, MCount>>,
      <<MLiteral, MStatus>>,
      <<MDerived, MCount>>,
      <<MNoService, MCount>>,
      <<MNoAction, MStatus>>,
      <<MBadCount, MCount>>,
      <<MNoField, MStatus>>,
      <<MNoProvider, MStatus>>,
      <<MFixedIndex, MIndexedName>> }

\* MetricsFile.LabelRenames after initLabelRenames: the compiled pattern is
\* given by the label values it matches.
LabelValues == {"Eth0", "eth0", "lan", "fritz.box", "Up"}
labelValueRenames ==
    << [MatchRegex |-> "^eth.*", Matches |-> {"eth0"}, RenameLabel |-> "lan"] >>
gateway == "fritz.box"

\* ---------------------------------------------------------------- the device
\* The value of the WWW-Authenticate header: its text up to the parameters and
\* the parameter map d that getDigestAuthHeader reads from it ("" = absent).
Challenge(prefix, realm, nonce, qop, algorithm) ==
    [prefix |-> prefix, realm |-> realm, nonce |-> nonce, qop |-> qop, algorithm |-> algorithm]
NoChallenge == Challenge("", "", "", "", "")
Challenges ==
    {NoChallenge, Challenge("Basic ", "box", "", "", ""),
     Challenge("Digest ", "box", "n1", "auth-int", ""),
     Challenge("Digest ", "box", "n1", "", "MD5"),
     Challenge("Digest ", "box", "n1", "auth", "SHA-256")}
    \cup {Challenge("Digest ", "box", "n" \o Itoa(n), "auth", alg) :
             n \in 1..MaxNonce, alg \in {"", "MD5"}}

\* The bodies the device answers an action with.
InfoBody(c) == Elem("NewCount", c) \o Elem("NewStatus", "Up") \o Elem("NewDelta", "-1")
Bodies(action) ==
    IF action = "GetInfo"
    THEN {InfoBody(Itoa(c)) : c \in 0..MaxCount}
         \cup {Elem("NewStatus", "Up"), <<BadToken>>}
    ELSE {Elem("NewValue", "7") \o Elem("NewName", "Eth0"), <<BadToken>>}

\* What http.DefaultClient.Do returns: a transport error or a response.
Response(err, status, wwwAuth, body) ==
    [err |-> err, StatusCode |-> status, wwwAuth |-> wwwAuth, body |-> body]
Responses(action) ==
    {Response(TRUE, 0, NoChallenge, <<>>), Response(FALSE, 500, NoChallenge, <<>>)}
    \cup {Response(FALSE, 401, c, <<>>) : c \in Challenges}
    \cup {Response(FALSE, 200, NoChallenge, b) : b \in Bodies(action)}

\* --------------------------------------------------------------- the state
VARIABLES
    revision,       \* which of the two revisions of package upnp is built
    metrics,        \* Collector.metrics: the configured catalog
    Username,       \* Exporter.Username
    Password,       \* Exporter.Password
    AuthHeader,     \* Exporter.AuthHeader
    collectErrors,  \* the counter fritzbox_exporter_collect_errors
    MetricResult,   \* Metric.MetricResult of every metric
    PromResult,     \* Metric.PromResult of every metric
    cachedResults,  \* Exporter.Collect: the per-poll cache
    pc,             \* position of the scrape
    mi,             \* Exporter.Collect: index of the metric in the range loop
    allResults,     \* request: allResults
    value,          \* request: value
    count,          \* request: count
    idx,            \* request: the loop variable i
    cur,            \* getActionResult: its arguments and the caller's use of it
    req,            \* call: the HTTP request (its Authorization header)
    resp,           \* call: the response of the last http.DefaultClient.Do
    wwwAuth,        \* call: wwwAuth of the first response
    posts,          \* call: number of http.DefaultClient.Do of this call
    callLog,        \* the calls made in this pass: key and outcome
    refLog,         \* the getActionResult invocations of this pass
    failed,         \* metrics with a resolution or invocation error in this pass
    errors0,        \* collectErrors when this pass started
    emitted,        \* the tuples sent to the registry in this pass
    fnIn,           \* the function applied on its own and its arguments
    fnOut,          \* what that function returned
    Device,         \* Exporter.Device: the device tree the descriptors decode to
    exporterServices, \* Exporter.Services: the flat index serviceType -> Service
    fetches,        \* the http.Get of the descriptors and schemas so far
    scrapes,        \* the goroutines that run Collector.Collect at the same time
    exporters,      \* the Exporter instances of a process with two targets
    jsonContent,    \* CollectAll: the entries collected so far
    SID             \* lua.Exporter.SID: the session id of the JSON backend

vars == <<revision, metrics, Username, Password, AuthHeader, collectErrors, MetricResult,
          PromResult, cachedResults, pc, mi, allResults, value, count, idx,
          cur, req, resp, wwwAuth, posts, callLog, refLog, failed, errors0,
          emitted, fnIn, fnOut, Device, exporterServices, fetches,
          scrapes, exporters, jsonContent, SID>>

fnVars == <<fnIn, fnOut>>
discoveryVars == <<Device, exporterServices, fetches>>
extraVars == <<scrapes, exporters, jsonContent, SID>>
otherVars == <<fnVars, discoveryVars, extraVars>>
config == <<revision, metrics, Username, Password>>
requestVars == <<mi, MetricResult, allResults, value, count, idx, collectErrors, failed, cur>>
callVars == <<req, resp, wwwAuth, posts>>

NumMetrics == Len(metrics)

\* ------------------------------------------------------------- Digest auth
\* The Authorization header value; NoHeader is the empty string.
NoHeader ==
    [username |-> "", realm |-> "", nonce |-> "", uri |-> "", cnonce |-> "",
     nc |-> "", qop |-> "", response |-> "", algorithm |-> ""]

\* md5.Sum printed with %x, kept symbolic.
MD5(s) == "md5(" \o s \o ")"

CNonces == {"c" \o Itoa(n) : n \in 1..MaxCNonce}

\* a negotiation that takes any qop the challenge offers
getDigestAuthHeader_AnyQop(old, controlURL, challenge, username, password, cnonce) ==
    IF challenge.prefix # "Digest " \/ challenge.algorithm \notin {"", "MD5"}
    THEN [err |-> TRUE, AuthHeader |-> old]
    ELSE LET nc == "00000001"
             ds == MD5(username \o ":" \o challenge.realm \o ":" \o password)
                   \o ":" \o challenge.nonce \o ":" \o nc \o ":" \o cnonce \o ":"
                   \o challenge.qop \o ":" \o MD5("POST:" \o controlURL)
         IN [err |-> FALSE,
             AuthHeader |->
                [username |-> username, realm |-> challenge.realm,
                 nonce |-> challenge.nonce, uri |-> controlURL, cnonce |-> cnonce,
                 nc |-> nc, qop |-> challenge.qop, response |-> MD5(ds),
                 algorithm |-> "MD5"]]

\* a negotiation that counts the nonce uses up
getDigestAuthHeader_CountNonce(old, controlURL, challenge, username, password, cnonce) ==
    IF challenge.prefix # "Digest " \/ challenge.algorithm \notin {"", "MD5"}
       \/ challenge.qop # "auth"
    THEN [err |-> TRUE, AuthHeader |-> old]
    ELSE LET nc == IF old.nc = "" THEN "00000001" ELSE "00000002"
             ds == MD5(username \o ":" \o challenge.realm \o ":" \o password)
                   \o ":" \o challenge.nonce \o ":" \o nc \o ":" \o cnonce \o ":"
                   \o challenge.qop \o ":" \o MD5("POST:" \o controlURL)
         IN [err |-> FALSE,
             AuthHeader |->
                [username |-> username, realm |-> challenge.realm,
                 nonce |-> challenge.nonce, uri |-> controlURL, cnonce |-> cnonce,
                 nc |-> nc, qop |-> challenge.qop, response |-> MD5(ds),
                 algorithm |-> "MD5"]]

\* getDigestAuthHeader: err and the value of exporter.AuthHeader afterwards
\* (old is its value before; cnonce is the outcome of rand.Read).
getDigestAuthHeader(old, controlURL, challenge, username, password, cnonce) ==
    IF challenge.prefix # "Digest " THEN [err |-> TRUE, AuthHeader |-> old]
    ELSE LET algorithm == IF challenge.algorithm = "" THEN "MD5" ELSE challenge.algorithm IN
    IF algorithm # "MD5" THEN [err |-> TRUE, AuthHeader |-> old]
    ELSE IF challenge.qop # "auth" THEN [err |-> TRUE, AuthHeader |-> old]
    ELSE LET ha1 == MD5(username \o ":" \o challenge.realm \o ":" \o password)
             ha2 == MD5("POST:" \o controlURL)
             nc == "00000001"
             ds == ha1 \o ":" \o challenge.nonce \o ":" \o nc \o ":" \o cnonce
                       \o ":" \o challenge.qop \o ":" \o ha2
         IN [err |-> FALSE,
             AuthHeader |->
                [username |-> username, realm |-> challenge.realm,
                 nonce |-> challenge.nonce, uri |-> controlURL, cnonce |-> cnonce,
                 nc |-> nc, qop |-> challenge.qop, response |-> MD5(ds),
                 algorithm |-> algorithm]]

\* ------------------------------------------------------------ the cache
EmptyCache == [k \in {} |-> NilMap]
CacheGet(cache, key) == IF key \in DOMAIN cache THEN cache[key] ELSE NilMap
\* a getActionResult that never stores the result
CachePut_Drop(cache, key, rec) == cache

CachePut(cache, key, rec) ==
    [k \in (DOMAIN cache) \cup {key} |-> IF k = key THEN rec ELSE cache[k]]

\* ActionArgument; set = FALSE is the nil pointer.
NoActionArgument == [set |-> FALSE, Name |-> "", Value |-> NilVal]
ActionArgument(name, val) == [set |-> TRUE, Name |-> name, Value |-> val]

\* getActionResult: the cache key
cacheKey(serviceType, actionName, actionArg) ==
    serviceType \o "|" \o actionName \o
       (IF actionArg.set
        THEN "|" \o actionArg.Name \o "|" \o SprintV(actionArg.Value)
        ELSE "")

NoCall == [serviceType |-> "", actionName |-> "", actionArg |-> NoActionArgument, use |-> ""]
NoRequest == [Authorization |-> NoHeader]

\* a call that does not reuse the prior header
firstRequest_NoReuse(authHeader) == NoRequest

\* call: createCallHTTPRequest and the reuse of the prior header on it
firstRequest(authHeader) == [Authorization |-> authHeader]
NoResponse == Response(FALSE, 0, NoChallenge, <<>>)

\* ---------------------------------------------------------------- discovery
\* A service of a device description and a device with its sub-devices.
ServiceDesc(serviceType, name) ==
    [ServiceType |-> serviceType, ControlURL |-> "/upnp/control/" \o name,
     SCPDUrl |-> "/" \o name \o "SCPD.xml"]
DeviceDesc(services, subDevices) == [Services |-> services, SubDevices |-> subDevices]
NoDevice == DeviceDesc(<<>>, <<>>)

\* scpdRoot: the actions and the state variables of a service schema.
StateVariable(name, dataType) == [Name |-> name, DataType |-> dataType]
ActionDesc(name, arguments) == [Name |-> name, Arguments |-> arguments]
scpdRoot(actions, stateVariables) == [Actions |-> actions, StateVariables |-> stateVariables]
NoScpd == scpdRoot(<<>>, <<>>)

\* Argument.StateVariable before it is linked, and when no state variable of
\* the service has the related name.
NoStateVariable == StateVariable("", "")

\* fillServicesForDevice, the two inner loops: the argument with its link;
\* the last state variable of the name is the one that stays.
linkArgument(argument, stateVariables) ==
    LET matching == {i \in 1..Len(stateVariables) :
                        stateVariables[i].Name = argument.RelatedStateVariable}
    IN [Name |-> argument.Name, Direction |-> argument.Direction,
        RelatedStateVariable |-> argument.RelatedStateVariable,
        StateVariable |->
            IF matching = {} THEN NoStateVariable
            ELSE stateVariables[CHOOSE i \in matching : \A j \in matching : j <= i]]

\* fillServicesForDevice, the loop over the actions of a service: Arguments
\* linked, ArgumentMap filled.
fillAction(action, stateVariables) ==
    LET arguments == [i \in 1..Len(action.Arguments) |->
                          linkArgument(action.Arguments[i], stateVariables)]
    IN [Name |-> action.Name, Arguments |-> arguments, ArgumentMap |-> ArgumentMap(arguments)]

\* fillServicesForDevice, the body of the loop over the services after the
\* schema is decoded: service.Actions is keyed by name, the last action of a
\* name stays.
fillService(service, scpd) ==
    [ServiceType |-> service.ServiceType, ControlURL |-> service.ControlURL,
     SCPDUrl |-> service.SCPDUrl, StateVariables |-> scpd.StateVariables,
     Actions |->
        [n \in {scpd.Actions[i].Name : i \in 1..Len(scpd.Actions)} |->
            LET last == CHOOSE i \in 1..Len(scpd.Actions) :
                          /\ scpd.Actions[i].Name = n
                          /\ \A j \in 1..Len(scpd.Actions) : scpd.Actions[j].Name = n => j <= i
            IN fillAction(scpd.Actions[last], scpd.StateVariables)]]

\* exporter.Services[service.ServiceType] = service
ServicesPut(services, service) ==
    [t \in (DOMAIN services) \cup {service.ServiceType} |->
        IF t = service.ServiceType THEN service ELSE services[t]]
NoServices == [t \in {} |-> 0]

\* fillServicesForDevice, the order of the recursion: the services of a
\* device, then its sub-devices one after the other.
RECURSIVE ServicesInOrder(_)
RECURSIVE SubDevicesInOrder(_, _)
\* a discovery that does not descend into the sub-devices
SubDevicesInOrder_None(subDevices, i) == <<>>

SubDevicesInOrder(subDevices, i) ==
    IF i > Len(subDevices) THEN <<>>
    ELSE ServicesInOrder(subDevices[i]) \o SubDevicesInOrder(subDevices, i + 1)
ServicesInOrder(device) == device.Services \o SubDevicesInOrder(device.SubDevices, 1)

\* XMLDecoder.Decode(exporter) on an exporter that holds a device already:
\* the decoder appends to the slices of the root device.
decodeDevice(device, doc) ==
    DeviceDesc(device.Services \o doc.Services, device.SubDevices \o doc.SubDevices)

\* The schema of the service WAN, as the scrape sees it.
RECURSIVE StateVariablesOf(_)
StateVariablesOf(names) ==
    IF names = {} THEN <<>>
    ELSE LET n == CHOOSE x \in names : TRUE
         IN <<StateVariable(n, StateVariables[n])>> \o StateVariablesOf(names \ {n})
WanScpd ==
    scpdRoot(<<ActionDesc("GetInfo", Services["WAN"].Actions["GetInfo"]),
               ActionDesc("GetEntry", Services["WAN"].Actions["GetEntry"])>>,
             StateVariablesOf(DOMAIN StateVariables))
WanDesc == ServiceDesc("WAN", "wan")

\* The device of the scrape: one service, discovered without error.
ModelDevice == DeviceDesc(<<WanDesc>>, <<>>)
LoadedServices == ServicesPut(NoServices, fillService(WanDesc, WanScpd))
Discovered ==
    /\ Device = ModelDevice
    /\ exporterServices = LoadedServices
    /\ fetches = <<"/igddesc.xml", "/tr64desc.xml", WanDesc.SCPDUrl>>

\* ------------------------------------------------------------------- Init
\* The repository holds package upnp in two revisions; a build has one.
Revisions == {"part_002", "part_003"}

Credentials == {<<"user", "secret">>, <<"", "secret">>, <<"user", "">>}

\* One scrape at a time of one exporter, and no blanket scan.
NoScrapes == <<>>
NoExporters == <<>>
Single ==
    /\ scrapes = NoScrapes
    /\ exporters = NoExporters
    /\ jsonContent = <<>>
    /\ SID = ""

\* No function is applied on its own in a scrape.
NoInput == [fn |-> ""]
NoOutput == [done |-> FALSE]

\* The exporter and the collector after construction, before the first scrape.
Fresh ==
    /\ AuthHeader = NoHeader
    /\ collectErrors = 0
    /\ MetricResult = [m \in 1..Len(metrics) |-> <<>>]
    /\ PromResult = [m \in 1..Len(metrics) |-> <<>>]
    /\ cachedResults = EmptyCache
    /\ pc = "idle"
    /\ mi = 0
    /\ allResults = <<>>
    /\ value = NilVal
    /\ count = 0
    /\ idx = 0
    /\ cur = NoCall
    /\ req = NoRequest
    /\ resp = NoResponse
    /\ wwwAuth = NoChallenge
    /\ posts = 0
    /\ callLog = <<>>
    /\ refLog = <<>>
    /\ failed = {}
    /\ errors0 = 0
    /\ emitted = [m \in 1..Len(metrics) |-> <<>>]

Init ==
    /\ Single
    /\ fnIn = NoInput
    /\ fnOut = NoOutput
    /\ revision \in Revisions
    /\ metrics \in Catalogs
    /\ \E c \in Credentials : Username = c[1] /\ Password = c[2]
    /\ Discovered
    /\ Fresh

\* ------------------------------------------------- Exporter.Collect, request
\* a Collect that keeps the cache of the pass before
Collect_KeepCache ==
    /\ pc = "idle"
    /\ mi' = 1
    /\ pc' = "request"
    /\ callLog' = <<>>
    /\ refLog' = <<>>
    /\ failed' = {}
    /\ errors0' = collectErrors
    /\ emitted' = [m \in 1..Len(metrics) |-> <<>>]
    /\ UNCHANGED <<config, otherVars, AuthHeader, collectErrors, MetricResult, PromResult,
                   cachedResults, allResults, value, count, idx, cur, callVars>>

\* a Collect that loads the services again
Collect_Reload ==
    /\ pc = "idle"
    /\ cachedResults' = EmptyCache
    /\ mi' = 1
    /\ pc' = "request"
    /\ callLog' = <<>>
    /\ refLog' = <<>>
    /\ failed' = {}
    /\ errors0' = collectErrors
    /\ emitted' = [m \in 1..NumMetrics |-> <<>>]
    /\ fetches' = <<"/igddesc.xml", "/tr64desc.xml", WanDesc.SCPDUrl>>
    /\ exporterServices' = ServicesPut(NoServices, fillService(WanDesc, NoScpd))
    /\ UNCHANGED <<config, fnVars, extraVars, Device, AuthHeader, collectErrors, MetricResult,
                   PromResult, allResults, value, count, idx, cur, callVars>>

\* Collector.Collect is entered by a scrape and calls Exporter.Collect, which
\* makes the cache and starts the range loop over the metrics.
Collect ==
    /\ pc = "idle"
    /\ cachedResults' = EmptyCache
    /\ mi' = 1
    /\ pc' = "request"
    /\ callLog' = <<>>
    /\ refLog' = <<>>
    /\ failed' = {}
    /\ errors0' = collectErrors
    /\ emitted' = [m \in 1..NumMetrics |-> <<>>]
    /\ UNCHANGED <<config, otherVars, AuthHeader, collectErrors, MetricResult, PromResult,
                   allResults, value, count, idx, cur, callVars>>

\* a Collect that returns at the first failed invocation
NextMetric_AbortOnError(results) ==
    /\ MetricResult' = [MetricResult EXCEPT ![mi] = results]
    /\ mi' = mi + 1
    /\ pc' = IF mi = NumMetrics \/ (\E r \in 1..Len(results) : results[r].nil)
             THEN "gateway" ELSE "request"
    /\ allResults' = <<>>
    /\ value' = NilVal
    /\ count' = 0
    /\ idx' = 0
    /\ cur' = NoCall

\* request returns allResults: Collect stores it in the metric and goes on
\* with the next metric, or returns after the last one.
NextMetric(results) ==
    /\ MetricResult' = [MetricResult EXCEPT ![mi] = results]
    /\ mi' = mi + 1
    /\ pc' = IF mi = NumMetrics THEN "gateway" ELSE "request"
    /\ allResults' = <<>>
    /\ value' = NilVal
    /\ count' = 0
    /\ idx' = 0
    /\ cur' = NoCall

\* a count of one when the value is no integer
indexCount_DefaultOne(v) ==
    IF Atoi(SprintV(v)).ok THEN Atoi(SprintV(v)) ELSE [ok |-> TRUE, n |-> 1]

\* strconv.Atoi(fmt.Sprintf("%v", value)): count is 0 when it fails.
indexCount(v) == Atoi(SprintV(v))

\* Collect clears the metric's result, request starts: it resolves the
\* argument up to its first getActionResult.
request ==
    /\ pc = "request"
    /\ LET m == metrics[mi]
           a == m.ActionArgument
       IN IF ~a.set
          THEN /\ cur' = [serviceType |-> m.Service, actionName |-> m.Action,
                          actionArg |-> NoActionArgument, use |-> "single"]
               /\ pc' = "lookup"
               /\ MetricResult' = [MetricResult EXCEPT ![mi] = <<>>]
               /\ UNCHANGED <<mi, allResults, value, count, idx, collectErrors, failed>>
          ELSE IF a.ProviderAction # ""
          THEN /\ cur' = [serviceType |-> m.Service, actionName |-> a.ProviderAction,
                          actionArg |-> NoActionArgument, use |-> "provider"]
               /\ pc' = "lookup"
               /\ value' = StrVal(a.Value)
               /\ MetricResult' = [MetricResult EXCEPT ![mi] = <<>>]
               /\ UNCHANGED <<mi, allResults, count, idx, collectErrors, failed>>
          ELSE IF a.IsIndex
          THEN LET c == indexCount(StrVal(a.Value)) IN
               /\ value' = StrVal(a.Value)
               /\ count' = IF c.ok THEN c.n ELSE 0
               /\ collectErrors' = IF c.ok THEN collectErrors ELSE collectErrors + 1
               /\ collectErrors' <= MaxErrors
               /\ failed' = IF c.ok THEN failed ELSE failed \cup {mi}
               /\ idx' = 0
               /\ pc' = "loop"
               /\ MetricResult' = [MetricResult EXCEPT ![mi] = <<>>]
               /\ UNCHANGED <<mi, allResults, cur>>
          ELSE /\ NextMetric(<<>>)
               /\ UNCHANGED <<collectErrors, failed>>
    /\ UNCHANGED <<config, otherVars, AuthHeader, PromResult, cachedResults, callVars,
                   callLog, refLog, errors0, emitted>>

\* a loop that counts from 1
indexValue_FromOne(i) == IntVal(i + 1)

\* request: the argument value of index i, ActionArgument{Name: a.Name, Value: i}
indexValue(i) == IntVal(i)

\* request: the head of the loop "for i := 0; i < count; i++".
indexLoop ==
    /\ pc = "loop"
    /\ IF idx < count
       THEN /\ cur' = [serviceType |-> metrics[mi].Service,
                       actionName |-> metrics[mi].Action,
                       actionArg |-> ActionArgument(metrics[mi].ActionArgument.Name, indexValue(idx)),
                       use |-> "index"]
            /\ pc' = "lookup"
            /\ UNCHANGED <<mi, MetricResult, allResults, value, count, idx>>
       ELSE NextMetric(allResults)
    /\ UNCHANGED <<config, otherVars, AuthHeader, PromResult, cachedResults, callVars,
                   callLog, refLog, errors0, emitted, collectErrors, failed>>

\* request, the index loop: the older revision skips the append after a
\* failed invocation (continue), the newer one appends the nil result.
appendIndexResult(rev, all, result, err) ==
    IF rev = "part_002" /\ err THEN all ELSE Append(all, result)

\* request after getActionResult has returned (result, err): the code that
\* follows the call in request, up to the next getActionResult or the return.
requestResume(result, err) ==
    LET a == metrics[mi].ActionArgument
        e0 == IF err THEN 1 ELSE 0
    IN CASE cur.use = "single" ->
              /\ collectErrors' = collectErrors + e0
              /\ collectErrors' <= MaxErrors
              /\ failed' = IF err THEN failed \cup {mi} ELSE failed
              /\ NextMetric(Append(allResults, result))
         [] cur.use = "provider" ->
              LET ok == MapHas(result, a.Value)
                  v == IF ok THEN result.m[a.Value] ELSE NilVal
                  e1 == IF ok THEN 0 ELSE 1
                  c == indexCount(v)
                  e2 == IF a.IsIndex /\ ~c.ok THEN 1 ELSE 0
              IN /\ collectErrors' = collectErrors + e0 + e1 + e2
                 /\ collectErrors' <= MaxErrors
                 /\ failed' = IF e0 + e1 + e2 > 0 THEN failed \cup {mi} ELSE failed
                 /\ IF a.IsIndex
                    THEN /\ value' = v
                         /\ count' = IF c.ok THEN c.n ELSE 0
                         /\ idx' = 0
                         /\ pc' = "loop"
                         /\ cur' = NoCall
                         /\ UNCHANGED <<mi, MetricResult, allResults>>
                    ELSE NextMetric(allResults)
         [] cur.use = "index" ->
              /\ collectErrors' = collectErrors + e0
              /\ collectErrors' <= MaxErrors
              /\ failed' = IF err THEN failed \cup {mi} ELSE failed
              /\ allResults' = appendIndexResult(revision, allResults, result, err)
              /\ idx' = idx + 1
              /\ pc' = "loop"
              /\ cur' = NoCall
              /\ UNCHANGED <<mi, MetricResult, value, count>>

\* ---------------------------------------------------- getActionResult, call
\* getActionResult: the lookup of the service and of the action in the
\* index; "" when both are found.
lookupAction(services, serviceType, actionName) ==
    IF serviceType \notin DOMAIN services THEN "service not found"
    ELSE IF actionName \notin DOMAIN services[serviceType].Actions THEN "action not found"
    ELSE ""

curKey == cacheKey(cur.serviceType, cur.actionName, cur.actionArg)
\* getActionResult: the action it has found in the index
curAction == exporterServices[cur.serviceType].Actions[cur.actionName]

\* getActionResult up to the return or up to the first POST of call:
\* the cache lookup, the service and action lookup, createCallHTTPRequest and
\* the attachment of the cached header.
getActionResult ==
    /\ pc = "lookup"
    /\ refLog' = Append(refLog, [m |-> mi, serviceType |-> cur.serviceType,
                                 actionName |-> cur.actionName,
                                 actionArg |-> cur.actionArg])
    /\ LET cacheEntry == CacheGet(cachedResults, curKey) IN
       IF ~cacheEntry.nil
       THEN /\ requestResume(cacheEntry, FALSE)
            /\ UNCHANGED <<callVars, callLog>>
       ELSE IF lookupAction(exporterServices, cur.serviceType, cur.actionName) # ""
       THEN /\ requestResume(NilMap, TRUE)
            /\ UNCHANGED <<callVars, callLog>>
       ELSE /\ req' = firstRequest(AuthHeader)
            /\ resp' = NoResponse
            /\ wwwAuth' = NoChallenge
            /\ posts' = 0
            /\ pc' = "do1"
            /\ UNCHANGED <<requestVars, callLog>>
    /\ UNCHANGED <<config, otherVars, AuthHeader, PromResult, cachedResults, errors0, emitted>>

\* a getActionResult that stores an empty record for a failed call
callReturn_CacheFailure(result, err) ==
    /\ callLog' = Append(callLog, [m |-> mi, key |-> curKey, use |-> cur.use, err |-> err])
    /\ cachedResults' = CachePut(cachedResults, curKey, IF err THEN EmptyMap ELSE result)
    /\ requestResume(IF err THEN NilMap ELSE result, err)

\* call returns (result, err) to getActionResult, which stores a result in
\* the cache and returns to request.
callReturn(result, err) ==
    /\ callLog' = Append(callLog, [m |-> mi, key |-> curKey, use |-> cur.use, err |-> err])
    /\ cachedResults' = IF err THEN cachedResults
                        ELSE CachePut(cachedResults, curKey, result)
    /\ requestResume(IF err THEN NilMap ELSE result, err)

\* a call that reads the body of every response, whatever its status
callFinish_AnyStatus(r) ==
    LET parsed == parseSoapResponse(curAction.Arguments,
                                    r.body)
    IN callReturn(parsed.rec, parsed.err)

\* call from the check of the final status on: the status and the body.
callFinish(r) ==
    IF r.StatusCode # 200 THEN callReturn(NilMap, TRUE)
    ELSE LET parsed == parseSoapResponse(
                          curAction.Arguments, r.body)
         IN callReturn(parsed.rec, parsed.err)

\* The cached header after getDigestAuthHeader returned d. The older
\* revision assigns the returned string, "" with an error, to the cached
\* header; the newer one stores the header only on success.
headerAfterNegotiation(rev, d) ==
    IF rev = "part_002" /\ d.err THEN NoHeader ELSE d.AuthHeader

\* call: the first http.DefaultClient.Do and what follows it, up to the
\* return or up to the second POST.
callDo ==
    /\ pc = "do1"
    /\ \E r \in Responses(cur.actionName) :
        /\ posts' = posts + 1
        /\ resp' = r
        /\ wwwAuth' = IF r.err THEN wwwAuth ELSE r.wwwAuth
        /\ IF r.err
           THEN /\ callReturn(NilMap, TRUE)
                /\ UNCHANGED <<AuthHeader, req>>
           ELSE IF r.StatusCode = 401
           THEN IF r.wwwAuth # NoChallenge /\ Username # "" /\ Password # ""
                THEN \E cnonce \in CNonces :
                       LET d == getDigestAuthHeader(AuthHeader,
                                   exporterServices[cur.serviceType].ControlURL,
                                   r.wwwAuth, Username, Password, cnonce)
                       IN /\ AuthHeader' = headerAfterNegotiation(revision, d)
                          /\ IF d.err
                             THEN /\ callReturn(NilMap, TRUE)
                                  /\ UNCHANGED req
                             ELSE /\ req' = [Authorization |-> d.AuthHeader]
                                  /\ pc' = "do2"
                                  /\ UNCHANGED <<requestVars, callLog, cachedResults>>
                ELSE /\ callReturn(NilMap, TRUE)
                     /\ UNCHANGED <<AuthHeader, req>>
           ELSE /\ callFinish(r)
                /\ UNCHANGED <<AuthHeader, req>>
    /\ UNCHANGED <<config, otherVars, PromResult, refLog, errors0, emitted>>

\* a call that answers a 401 on the retry with one more retry
callRetry_Again ==
    /\ pc = "do2"
    /\ \E r \in Responses(cur.actionName) :
        /\ posts' = posts + 1
        /\ resp' = r
        /\ IF r.err THEN callReturn(NilMap, TRUE)
           ELSE IF r.StatusCode = 401 /\ posts < 3
           THEN /\ pc' = "do2"
                /\ UNCHANGED <<requestVars, callLog, cachedResults>>
           ELSE callFinish(r)
    /\ UNCHANGED <<config, otherVars, AuthHeader, req, wwwAuth, PromResult, refLog, errors0, emitted>>

\* call: the second http.DefaultClient.Do (the authenticated retry) and the
\* rest of call.
callRetry ==
    /\ pc = "do2"
    /\ \E r \in Responses(cur.actionName) :
        /\ posts' = posts + 1
        /\ resp' = r
        /\ IF r.err THEN callReturn(NilMap, TRUE) ELSE callFinish(r)
    /\ UNCHANGED <<config, otherVars, AuthHeader, req, wwwAuth, PromResult, refLog, errors0, emitted>>

\* ------------------------------------------------------------- extraction
\* strings.ToLower on the label values that occur
ToLower(s) ==
    CASE s = "Eth0" -> "eth0"
      [] s = "Up" -> "up"
      [] OTHER -> s

RECURSIVE renameFrom(_, _, _)
\* a renaming that stops at the first rule that matches
renameFrom_FirstMatch(labelValue, labelRenames, i) ==
    IF i > Len(labelRenames) THEN labelValue
    ELSE IF labelValue \in labelRenames[i].Matches
         THEN labelRenames[i].RenameLabel
         ELSE renameFrom(labelValue, labelRenames, i + 1)

\* renameLabel: the rules from rule i on
renameFrom(labelValue, labelRenames, i) ==
    IF i > Len(labelRenames) THEN labelValue
    ELSE renameFrom(IF labelValue \in labelRenames[i].Matches
                    THEN labelRenames[i].RenameLabel
                    ELSE labelValue,
                    labelRenames, i + 1)

renameLabel(labelValue, labelRenames) == renameFrom(labelValue, labelRenames, 1)

\* a getLabelValues that lowercases before it renames
getLabelValues_LowerFirst(labelNames, result, gw, labelRenames) ==
    LET raw(n) == IF n = "gateway" THEN StrVal(gw) ELSE MapGet(result, n) IN
    IF \E i \in 1..Len(labelNames) : raw(labelNames[i]).t # "string"
    THEN [panic |-> TRUE, labelValues |-> <<>>]
    ELSE [panic |-> FALSE,
          labelValues |-> [i \in 1..Len(labelNames) |->
                             renameLabel(ToLower(raw(labelNames[i]).s), labelRenames)]]

\* getLabelValues: panic is the failed type assertion result[labelname].(string)
getLabelValues(labelNames, result, gw, labelRenames) ==
    LET raw(n) == IF n = "gateway" THEN StrVal(gw) ELSE MapGet(result, n) IN
    IF \E i \in 1..Len(labelNames) : raw(labelNames[i]).t # "string"
    THEN [panic |-> TRUE, labelValues |-> <<>>]
    ELSE [panic |-> FALSE,
          labelValues |-> [i \in 1..Len(labelNames) |->
                             ToLower(renameLabel(raw(labelNames[i]).s, labelRenames))]]

\* getResultValue
getResultValue(key, result, okValue) ==
    LET k == IF key = "" THEN "result" ELSE key
        tval == MapGet(result, k)
    IN CASE tval.t \in {"float64", "int", "uint64"} -> [err |-> FALSE, v |-> tval.n]
         [] tval.t = "bool" -> [err |-> FALSE, v |-> tval.n]
         [] tval.t = "string" -> [err |-> FALSE, v |-> IF tval.s = okValue THEN 1 ELSE 0]
         [] OTHER -> [err |-> TRUE, v |-> 0]

\* Collector.getResult: the loops from metric m, record r on; prom is the
\* PromResult of every metric so far.
RECURSIVE getResultFrom(_, _, _, _, _)
getResultFrom(ms, results, m, r, prom) ==
    IF m > Len(ms) THEN [st |-> "ok", prom |-> prom]
    ELSE LET p0 == IF r = 1 THEN [prom EXCEPT ![m] = <<>>] ELSE prom IN
         IF r > Len(results[m]) THEN getResultFrom(ms, results, m + 1, 1, p0)
         ELSE LET lv == getLabelValues(ms[m].VarLabels, results[m][r], gateway,
                                        labelValueRenames)
                  rv == getResultValue(ms[m].ResultKey, results[m][r], ms[m].OkValue)
              IN IF lv.panic THEN [st |-> "panic", prom |-> p0]
                 ELSE IF rv.err THEN [st |-> "err", prom |-> p0]
                 ELSE getResultFrom(ms, results, m, r + 1,
                        [p0 EXCEPT ![m] = Append(@, [Value |-> rv.v,
                                                     LabelValues |-> lv.labelValues])])

\* Collector.addGatewayGeneric: the assignment metricResult["gateway"] panics
\* on a nil map.
addGatewayGeneric ==
    /\ pc = "gateway"
    /\ IF \E m \in 1..NumMetrics : \E r \in 1..Len(MetricResult[m]) : MetricResult[m][r].nil
       THEN /\ pc' = "panic"
            /\ UNCHANGED MetricResult
       ELSE /\ pc' = "extract"
            /\ MetricResult' =
                 [m \in 1..NumMetrics |->
                    [r \in 1..Len(MetricResult[m]) |->
                        MapSet(MetricResult[m][r], "gateway", StrVal(gateway))]]
    /\ mi' = 0
    /\ req' = NoRequest
    /\ resp' = NoResponse
    /\ wwwAuth' = NoChallenge
    /\ posts' = 0
    /\ UNCHANGED <<config, otherVars, AuthHeader, collectErrors, PromResult, cachedResults,
                   allResults, value, count, idx, cur, callLog, refLog, failed, errors0, emitted>>

\* Collector.getResult
getResult ==
    /\ pc = "extract"
    /\ LET g == getResultFrom(metrics, MetricResult, 1, 1, PromResult) IN
       /\ PromResult' = g.prom
       /\ pc' = IF g.st = "panic" THEN "panic" ELSE "emit"
    /\ UNCHANGED <<config, otherVars, AuthHeader, collectErrors, MetricResult, cachedResults,
                   mi, allResults, value, count, idx, cur, callVars, callLog, refLog,
                   failed, errors0, emitted>>

\* Collector.Collect: the loop that sends every PromResult to the registry.
emit ==
    /\ pc = "emit"
    /\ emitted' = PromResult
    /\ pc' = "idle"
    /\ UNCHANGED <<config, otherVars, AuthHeader, collectErrors, MetricResult, PromResult,
                   cachedResults, mi, allResults, value, count, idx, cur,
                   callVars, callLog, refLog, failed, errors0>>

Next ==
    \/ Collect
    \/ request
    \/ indexLoop
    \/ getActionResult
    \/ callDo
    \/ callRetry
    \/ addGatewayGeneric
    \/ getResult
    \/ emit

Spec == Init /\ [][Next]_vars

\* ------------------------------------------- the functions on their own
\* Each function of the pipeline is applied once to arguments drawn from a
\* bounded set; the exporter and the collector stay as constructed.
scrapeVars == <<AuthHeader, collectErrors, MetricResult, PromResult, cachedResults,
                pc, mi, allResults, value, count, idx, cur, req, resp, wwwAuth,
                posts, callLog, refLog, failed, errors0, emitted>>

\* The challenges a WWW-Authenticate header can carry, beyond those the
\* modelled device sends: other realms and nonces, an absent qop, a list of
\* qop values, an algorithm in another spelling.
FnChallenges ==
    Challenges
    \cup {Challenge("Digest ", realm, nonce, "auth", alg) :
             realm \in {"box", "R"}, nonce \in {"n1", "N"}, alg \in {"", "MD5"}}
    \cup {Challenge("Digest ", "box", "n1", qop, alg) :
             qop \in {"", "auth,auth-int", "AUTH", "auth"},
             alg \in {"", "MD5", "md5", "MD5-sess"}}

\* A header cached by an earlier negotiation.
EarlierHeader ==
    getDigestAuthHeader(NoHeader, "/upnp/control/wan",
                        Challenge("Digest ", "box", "n0", "auth", "MD5"),
                        "user", "secret", "c0").AuthHeader

DigestInputs ==
    {[fn |-> "getDigestAuthHeader", old |-> old, controlURL |-> url, challenge |-> ch,
      username |-> c[1], password |-> c[2], cnonce |-> cn] :
        old \in {NoHeader, EarlierHeader},
        url \in {"/upnp/control/wan", "/c"},
        ch \in FnChallenges,
        c \in {<<"user", "secret">>, <<"u", "p">>},
        cn \in {"c1", "c2"}}

applyGetDigestAuthHeader ==
    /\ fnIn.fn = "getDigestAuthHeader"
    /\ ~fnOut.done
    /\ LET d == getDigestAuthHeader(fnIn.old, fnIn.controlURL, fnIn.challenge,
                                     fnIn.username, fnIn.password, fnIn.cnonce)
       IN fnOut' = [done |-> TRUE, err |-> d.err, AuthHeader |-> d.AuthHeader]
    /\ UNCHANGED <<config, discoveryVars, extraVars, scrapeVars, fnIn>>

\* The texts an element of a response can carry: decimal texts up to and
\* beyond the largest uint64 and the smallest int64, with a sign, with a
\* leading zero, and texts that are no number.
Texts ==
    {"", "abc", "true", "1.5", "-", "+"}
    \cup UNION {{Itoa(n), "0" \o Itoa(n), "+" \o Itoa(n), "-" \o Itoa(n)} :
                 n \in 0..(MaxUint64 + 2)}

\* The data types a state variable can declare.
DataTypes ==
    {"string", "boolean", "ui1", "ui2", "ui4", "i4", "dateTime", "uuid",
     "i2", "r8", ""}

ConvertInputs ==
    {[fn |-> "convertResult", val |-> val, dataType |-> dt] :
        val \in Texts, dt \in DataTypes}

applyConvertResult ==
    /\ fnIn.fn = "convertResult"
    /\ ~fnOut.done
    /\ LET c == convertResult(fnIn.val, fnIn.dataType)
       IN fnOut' = [done |-> TRUE, err |-> c.err, v |-> c.v]
    /\ UNCHANGED <<config, discoveryVars, extraVars, scrapeVars, fnIn>>

\* The elements of a response body: elements of the output arguments and of
\* the input argument of GetEntry, an empty element, elements no argument
\* is declared for, and what the decoder rejects.
ParseElems ==
    {Elem("NewValue", t) : t \in {Itoa(n) : n \in 0..(MaxUint64 + 1)} \cup {"x"}}
    \cup {Elem("NewIndex", t) : t \in {"3", "x"}}
    \cup {Elem("NewName", t) : t \in {"Eth0", ""}}
    \cup {Elem("Value", "5"), Elem("Other", "1"),
          <<Start("NewName"), End("NewName")>>,
          <<Start("NewValue"), Start("Other")>>,
          <<Start("NewName"), Start("Other")>>,
          <<Start("Body")>>, <<Start("NewValue")>>, <<BadToken>>, <<>>}

ParseInputs ==
    {[fn |-> "parseSoapResponse", action |-> "GetEntry", body |-> e1 \o e2] :
        e1 \in ParseElems, e2 \in ParseElems}

applyParseSoapResponse ==
    /\ fnIn.fn = "parseSoapResponse"
    /\ ~fnOut.done
    /\ LET parsed == parseSoapResponse(Services["WAN"].Actions[fnIn.action], fnIn.body)
       IN fnOut' = [done |-> TRUE, err |-> parsed.err, rec |-> parsed.rec]
    /\ UNCHANGED <<config, discoveryVars, extraVars, scrapeVars, fnIn>>

\* The values a result record can hold under a key: what convertResult
\* produces, the int and float64 of the other backend, and nil.
RecordValues ==
    {F64Val(2), IntVal(2), U64Val(0), U64Val(MaxUint32 + 1), I64Val(3), I64Val(0 - 1),
     BoolVal(TRUE), BoolVal(FALSE), StrVal("Up"), StrVal("down"), StrVal(""), NilVal}

ResultValueInputs ==
    {[fn |-> "getResultValue", key |-> key, okValue |-> ok,
      result |-> MapSet(EmptyMap, f, v)] :
        key \in {"", "result", "Count"}, ok \in {"Up", ""},
        f \in {"result", "Count"}, v \in RecordValues}

applyGetResultValue ==
    /\ fnIn.fn = "getResultValue"
    /\ ~fnOut.done
    /\ LET rv == getResultValue(fnIn.key, fnIn.result, fnIn.okValue)
       IN fnOut' = [done |-> TRUE, err |-> rv.err, v |-> rv.v]
    /\ UNCHANGED <<config, discoveryVars, extraVars, scrapeVars, fnIn>>

\* Label values before lowercasing, and rename rules over them: the
\* compiled pattern of a rule is given by the values it matches.
RenameValues == {"eth0", "eth1", "Eth0", "lan", "wan", "any", "Up"}
RenameRules ==
    {[MatchRegex |-> "^eth.*", Matches |-> {"eth0", "eth1"}, RenameLabel |-> "lan"],
     [MatchRegex |-> "^eth0$", Matches |-> {"eth0"}, RenameLabel |-> "wan"],
     [MatchRegex |-> "^lan$", Matches |-> {"lan"}, RenameLabel |-> "eth1"],
     [MatchRegex |-> ".*", Matches |-> RenameValues, RenameLabel |-> "any"],
     [MatchRegex |-> "^dsl", Matches |-> {}, RenameLabel |-> "wan"]}

RenameLists ==
    {<<>>} \cup {<<r>> : r \in RenameRules}
    \cup {<<r1, r2>> : r1 \in RenameRules, r2 \in RenameRules}
    \cup {<<r1, r2, r3>> : r1 \in RenameRules, r2 \in RenameRules, r3 \in RenameRules}

RenameInputs ==
    {[fn |-> "renameLabel", labelValue |-> v, labelRenames |-> l] :
        v \in RenameValues, l \in RenameLists}

applyRenameLabel ==
    /\ fnIn.fn = "renameLabel"
    /\ ~fnOut.done
    /\ fnOut' = [done |-> TRUE,
                 labelValue |-> renameLabel(fnIn.labelValue, fnIn.labelRenames)]
    /\ UNCHANGED <<config, discoveryVars, extraVars, scrapeVars, fnIn>>

\* Actions with up to three arguments of the directions "in" and "out" and
\* of no direction.
Directions == {"in", "out", ""}
ArgumentLists ==
    {<<>>} \cup {<<Arg("NewA", d1, "A")>> : d1 \in Directions}
    \cup {<<Arg("NewA", d1, "A"), Arg("NewB", d2, "B")>> : d1 \in Directions, d2 \in Directions}
    \cup {<<Arg("NewA", d1, "A"), Arg("NewB", d2, "B"), Arg("NewC", d3, "C")>> :
             d1 \in Directions, d2 \in Directions, d3 \in Directions}

GetOnlyInputs ==
    {[fn |-> "IsGetOnly", action |-> [Name |-> "X", Arguments |-> l]] : l \in ArgumentLists}

applyIsGetOnly ==
    /\ fnIn.fn = "IsGetOnly"
    /\ ~fnOut.done
    /\ fnOut' = [done |-> TRUE, result |-> IsGetOnly(fnIn.action)]
    /\ UNCHANGED <<config, discoveryVars, extraVars, scrapeVars, fnIn>>

\* The references getActionResult can be called with: discovered and
\* undiscovered names, with and without an argument, an argument value as
\* text and as the int of the index loop.
KeyRefs ==
    {[serviceType |-> st, actionName |-> an, actionArg |-> arg] :
        st \in {"WAN", "LAN"},
        an \in {"GetEntry", "GetInfo", "GetEntry|NewIndex|0"},
        arg \in {NoActionArgument, ActionArgument("NewIndex", StrVal("0")),
                 ActionArgument("NewIndex", IntVal(0)), ActionArgument("NewIndex", IntVal(1)),
                 ActionArgument("NewName", StrVal("0"))}}
CacheKeyInputs == {[fn |-> "cacheKey", a |-> a, b |-> b] : a \in KeyRefs, b \in KeyRefs}

\* getActionResult: the keys of two references, and the cache lookup for
\* the second in a cache that holds a record stored for the first
applyCacheKey ==
    /\ fnIn.fn = "cacheKey"
    /\ ~fnOut.done
    /\ LET a == cacheKey(fnIn.a.serviceType, fnIn.a.actionName, fnIn.a.actionArg)
           b == cacheKey(fnIn.b.serviceType, fnIn.b.actionName, fnIn.b.actionArg)
       IN fnOut' = [done |-> TRUE, a |-> a, b |-> b,
                    hit |-> ~CacheGet(CachePut(EmptyCache, a, EmptyMap), b).nil]
    /\ UNCHANGED <<config, discoveryVars, extraVars, scrapeVars, fnIn>>

FnInputs ==
    DigestInputs \cup ConvertInputs \cup ParseInputs \cup ResultValueInputs
    \cup RenameInputs \cup GetOnlyInputs \cup CacheKeyInputs

InitFn ==
    /\ Single
    /\ fnIn \in FnInputs
    /\ fnOut = NoOutput
    /\ revision = "part_003"
    /\ metrics = <<MCount, MStatus>>
    /\ Username = "user"
    /\ Password = "secret"
    /\ Discovered
    /\ Fresh

NextFn ==
    \/ applyGetDigestAuthHeader
    \/ applyConvertResult
    \/ applyParseSoapResponse
    \/ applyGetResultValue
    \/ applyRenameLabel
    \/ applyIsGetOnly
    \/ applyCacheKey

SpecFn == InitFn /\ [][NextFn]_vars

\* ------------------------------------------------------ discovery on its own
\* NewUpnpCollector up to its return: LoadServices against a device whose
\* descriptors and schemas are fetched with the outcomes drawn here.
LanDesc == ServiceDesc("LAN", "lan")
HostsDesc == ServiceDesc("Hosts", "hosts")
WlanDesc == ServiceDesc("WLAN", "wlan")
\* a second service of the type LAN, in another device
Lan2Desc == ServiceDesc("LAN", "lan2")

IgdDocs ==
    {DeviceDesc(<<WanDesc>>, <<>>),
     DeviceDesc(<<WanDesc>>, <<DeviceDesc(<<LanDesc>>, <<DeviceDesc(<<HostsDesc>>, <<>>)>>)>>)}
Tr64Docs ==
    {NoDevice,
     DeviceDesc(<<WlanDesc>>, <<DeviceDesc(<<Lan2Desc>>, <<>>)>>)}

\* The schemas behind the SCPD URLs: an argument whose related state
\* variable is not declared, a state variable declared twice, an argument
\* name used twice, an action name used twice, an action without arguments.
Schemas ==
    [u \in {WanDesc.SCPDUrl, LanDesc.SCPDUrl, HostsDesc.SCPDUrl, WlanDesc.SCPDUrl,
            Lan2Desc.SCPDUrl} |->
        CASE u = WanDesc.SCPDUrl -> WanScpd
          [] u = LanDesc.SCPDUrl ->
                scpdRoot(<<ActionDesc("GetLan", <<Arg("NewUp", "out", "Up"),
                                                   Arg("NewRate", "out", "Rate")>>)>>,
                         <<StateVariable("Up", "boolean")>>)
          [] u = HostsDesc.SCPDUrl ->
                scpdRoot(<<ActionDesc("GetHost", <<Arg("NewIndex", "in", "Index"),
                                                    Arg("NewName", "out", "Name"),
                                                    Arg("NewName", "out", "Alias")>>),
                           ActionDesc("Reset", <<>>)>>,
                         <<StateVariable("Index", "ui2"), StateVariable("Name", "string"),
                           StateVariable("Alias", "string"), StateVariable("Name", "uuid")>>)
          [] u = WlanDesc.SCPDUrl ->
                scpdRoot(<<ActionDesc("GetSsid", <<Arg("NewSsid", "out", "Ssid")>>),
                           ActionDesc("GetSsid", <<Arg("NewName", "out", "Name")>>)>>,
                         <<StateVariable("Ssid", "string"), StateVariable("Name", "string")>>)
          [] OTHER ->
                scpdRoot(<<ActionDesc("GetLan2", <<Arg("NewUp", "out", "Up")>>)>>,
                         <<StateVariable("Up", "boolean")>>)]

\* What an http.Get and the decode of its body come to.
Outcomes == {"ok", "transport", "decode"}
Urls == {"/igddesc.xml", "/tr64desc.xml"} \cup DOMAIN Schemas

LoadInputs ==
    {[fn |-> "LoadServices", igddesc |-> igd, tr64desc |-> tr64, outcome |-> o] :
        igd \in IgdDocs, tr64 \in Tr64Docs, o \in [Urls -> Outcomes]}

\* the step of a discovery that goes on after a failed fetch or decode
discoveryStep_Tolerant(outcome, next) == next

\* `if err != nil { return err }` after a fetch and its decode
discoveryStep(outcome, next) == IF outcome = "ok" THEN next ELSE "failed"

\* Exporter.load of one descriptor
load(path, doc, next) ==
    /\ fetches' = Append(fetches, path)
    /\ Device' = IF fnIn.outcome[path] = "ok" THEN decodeDevice(Device, doc) ELSE Device
    /\ pc' = discoveryStep(fnIn.outcome[path], next)

\* LoadServices: exporter.load("igddesc.xml")
loadIgddesc ==
    /\ pc = "igddesc"
    /\ load("/igddesc.xml", fnIn.igddesc, "tr64desc")
    /\ UNCHANGED exporterServices
    /\ UNCHANGED <<config, fnVars, extraVars, AuthHeader, collectErrors, MetricResult, PromResult,
                   cachedResults, mi, allResults, value, count, idx, cur, callVars,
                   callLog, refLog, failed, errors0, emitted>>

\* LoadServices: exporter.load("tr64desc.xml") and, after it, the new index
loadTr64desc ==
    /\ pc = "tr64desc"
    /\ load("/tr64desc.xml", fnIn.tr64desc, "fill")
    /\ exporterServices' = NoServices
    /\ UNCHANGED <<config, fnVars, extraVars, AuthHeader, collectErrors, MetricResult, PromResult,
                   cachedResults, mi, allResults, value, count, idx, cur, callVars,
                   callLog, refLog, failed, errors0, emitted>>

\* The schemas fetched so far, all but the last of them with success.
schemasFetched == Len(fetches) - 2

\* fillServicesForDevice: the fetch and the decode of the schema of the next
\* service in the order of the recursion, and the filling of the index.
fillServicesForDevice ==
    /\ pc = "fill"
    /\ schemasFetched < Len(ServicesInOrder(Device))
    /\ LET service == ServicesInOrder(Device)[schemasFetched + 1] IN
       /\ fetches' = Append(fetches, service.SCPDUrl)
       /\ exporterServices' =
             IF fnIn.outcome[service.SCPDUrl] = "ok"
             THEN ServicesPut(exporterServices, fillService(service, Schemas[service.SCPDUrl]))
             ELSE exporterServices
       /\ pc' = discoveryStep(fnIn.outcome[service.SCPDUrl], "fill")
    /\ UNCHANGED Device
    /\ UNCHANGED <<config, fnVars, extraVars, AuthHeader, collectErrors, MetricResult, PromResult,
                   cachedResults, mi, allResults, value, count, idx, cur, callVars,
                   callLog, refLog, failed, errors0, emitted>>

\* LoadServices returns nil and NewUpnpCollector returns the collector.
NewUpnpCollector ==
    /\ pc = "fill"
    /\ schemasFetched = Len(ServicesInOrder(Device))
    /\ pc' = "idle"
    /\ UNCHANGED <<config, otherVars, AuthHeader, collectErrors, MetricResult, PromResult,
                   cachedResults, mi, allResults, value, count, idx, cur, callVars,
                   callLog, refLog, failed, errors0, emitted>>

\* The references a metric can make to the index.
LookupTypes == {"WAN", "LAN", "Hosts", "WLAN", "DSL"}
LookupActions == {"GetInfo", "GetLan", "GetLan2", "GetHost", "Reset", "GetSsid", "GetNone"}

\* getActionResult of the constructed collector, on an empty cache, up to
\* the lookup of the action.
getActionResultLookup ==
    /\ pc = "idle"
    /\ fnIn.fn = "LoadServices"
    /\ ~fnOut.done
    /\ \E serviceType \in LookupTypes, actionName \in LookupActions :
          fnOut' = [done |-> TRUE, serviceType |-> serviceType, actionName |-> actionName,
                    err |-> lookupAction(exporterServices, serviceType, actionName)]
    /\ UNCHANGED <<config, fnIn, discoveryVars, extraVars, scrapeVars>>

InitDiscover ==
    /\ Single
    /\ fnIn \in LoadInputs
    /\ fnOut = NoOutput
    /\ revision = "part_003"
    /\ metrics = <<MCount, MStatus>>
    /\ Username = "user"
    /\ Password = "secret"
    /\ Device = NoDevice
    /\ exporterServices = NoServices
    /\ fetches = <<>>
    /\ AuthHeader = NoHeader
    /\ collectErrors = 0
    /\ MetricResult = [m \in 1..Len(metrics) |-> <<>>]
    /\ PromResult = [m \in 1..Len(metrics) |-> <<>>]
    /\ cachedResults = EmptyCache
    /\ pc = "igddesc"
    /\ mi = 0
    /\ allResults = <<>>
    /\ value = NilVal
    /\ count = 0
    /\ idx = 0
    /\ cur = NoCall
    /\ req = NoRequest
    /\ resp = NoResponse
    /\ wwwAuth = NoChallenge
    /\ posts = 0
    /\ callLog = <<>>
    /\ refLog = <<>>
    /\ failed = {}
    /\ errors0 = 0
    /\ emitted = [m \in 1..Len(metrics) |-> <<>>]

NextDiscover ==
    \/ loadIgddesc
    \/ loadTr64desc
    \/ fillServicesForDevice
    \/ NewUpnpCollector
    \/ getActionResultLookup

SpecDiscover == InitDiscover /\ [][NextDiscover]_vars

\* -------------------------------------------------- extraction on its own
\* Collector.Collect from the return of Exporter.Collect on, over the result
\* records that responses of GetEntry parse to.
MLabelValue == Metric("WAN", "GetEntry", ActionArg("NewIndex", TRUE, "", "1"),
                      "Name", "Eth0", <<"gateway", "Value">>)

ExtractCatalogs == {<<MIndexed, MIndexedName>>, <<MLabelValue, MIndexedName>>}

\* parseSoapResponse of a GetEntry body with or without the elements NewValue
\* and NewName.
ExtractRecords ==
    {parseSoapResponse(Services["WAN"].Actions["GetEntry"], b1 \o b2).rec :
        b1 \in {<<>>, Elem("NewValue", "7")},
        b2 \in {<<>>, Elem("NewName", "Eth0"), Elem("NewName", "eth0")}}

ExtractResults == {<<>>} \cup {<<r>> : r \in ExtractRecords}
                  \cup {<<r1, r2>> : r1 \in ExtractRecords, r2 \in ExtractRecords}

InitExtract ==
    /\ Single
    /\ fnIn = NoInput
    /\ fnOut = NoOutput
    /\ revision = "part_003"
    /\ metrics \in ExtractCatalogs
    /\ Username = "user"
    /\ Password = "secret"
    /\ Discovered
    /\ AuthHeader = NoHeader
    /\ collectErrors = 0
    /\ MetricResult \in [1..Len(metrics) -> ExtractResults]
    /\ PromResult = [m \in 1..Len(metrics) |-> <<>>]
    /\ cachedResults = EmptyCache
    /\ pc = "gateway"
    /\ mi = Len(metrics)
    /\ allResults = <<>>
    /\ value = NilVal
    /\ count = 0
    /\ idx = 0
    /\ cur = NoCall
    /\ req = NoRequest
    /\ resp = NoResponse
    /\ wwwAuth = NoChallenge
    /\ posts = 0
    /\ callLog = <<>>
    /\ refLog = <<>>
    /\ failed = {}
    /\ errors0 = 0
    /\ emitted = [m \in 1..Len(metrics) |-> <<>>]

NextExtract ==
    \/ addGatewayGeneric
    \/ getResult
    \/ emit

SpecExtract == InitExtract /\ [][NextExtract]_vars

\* ------------------------------------------------------------ the claims
\* The cache key of a logged getActionResult invocation.
RefKey(e) == cacheKey(e.serviceType, e.actionName, e.actionArg)

\* The service and the action of a logged invocation are discovered ones.
RefKnown(e) ==
    /\ e.serviceType \in DOMAIN Services
    /\ e.actionName \in DOMAIN Services[e.serviceType].Actions

\* The i-th getActionResult of the pass has returned.
RefDone(i) == i < Len(refLog) \/ pc \notin {"do1", "do2"}

\* call is not in progress: the last call, if any, has returned.
CallReturned == pc \notin {"lookup", "do1", "do2"}

\* The calls of this pass for a key.
CallsOf(key) == {k \in 1..Len(callLog) : callLog[k].key = key}

\* A target invocation (not a provider lookup) of metric m failed in this pass.
TargetFailed(m) ==
    \E k \in 1..Len(callLog) :
        callLog[k].m = m /\ callLog[k].use \in {"single", "index"} /\ callLog[k].err

\* C1 as stated: within one pass a key is invoked over the network at most
\* once, whatever the outcome of the invocation.
C1_OneInvocationPerKey ==
    \A i, j \in 1..Len(callLog) : callLog[i].key = callLog[j].key => i = j

\* C1 as amended: within one pass every reference to a discovered action
\* that has returned was answered by a call or from the cache, and no call
\* for a key follows a successful call for that key: a key has at most one
\* successful invocation per pass and only a failed one is repeated.
C1_NoCallAfterSuccess ==
    /\ \A i, j \in 1..Len(callLog) :
          i < j /\ callLog[i].key = callLog[j].key => callLog[i].err
    /\ \A i \in 1..Len(refLog) :
          RefDone(i) /\ RefKnown(refLog[i]) => CallsOf(RefKey(refLog[i])) # {}

\* C1 witness: two references to one key have returned in a pass and the
\* key was invoked once, successfully.
C1_Witness ==
    \E i, j \in 1..Len(refLog) :
        /\ i < j
        /\ RefKey(refLog[i]) = RefKey(refLog[j])
        /\ RefDone(j)
        /\ Cardinality(CallsOf(RefKey(refLog[i]))) = 1
        /\ \A k \in CallsOf(RefKey(refLog[i])) : ~callLog[k].err

\* request of metric j invokes getActionResult whatever the device answers.
Invokes(j) ==
    \/ ~metrics[j].ActionArgument.set
    \/ metrics[j].ActionArgument.ProviderAction # ""

\* Metric j was resolved and invoked in this pass.
Reached(j) == mi > j /\ (Invokes(j) => \E k \in 1..Len(refLog) : refLog[k].m = j)

\* C2: every metric with a resolution or invocation error in the pass has
\* raised the error counter, and when Exporter.Collect returns every metric
\* declared after a failed one has been resolved and invoked in that pass.
C2_FailureDoesNotAbortPass ==
    /\ collectErrors >= errors0 + Cardinality(failed)
    /\ pc = "gateway" =>
          \A i \in failed : \A j \in (i + 1)..NumMetrics : Reached(j)

\* C2 witness: Exporter.Collect has returned, a metric failed and a metric
\* declared after it was invoked.
C2_Witness ==
    /\ pc = "gateway"
    /\ \E i \in failed : \E k \in 1..Len(refLog) : refLog[k].m > i

\* C3: a failed target invocation of metric m does not end the pass
\* abnormally, and when the pass is over the metric's results hold no
\* placeholder: every record of it gave a tuple.
C3_FailedInvocationOnlyDropsItsMetric ==
    \A m \in 1..NumMetrics :
        TargetFailed(m) =>
            /\ pc # "panic"
            /\ pc = "idle" =>
                  /\ \A r \in 1..Len(MetricResult[m]) : ~MetricResult[m][r].nil
                  /\ Len(emitted[m]) = Len(MetricResult[m])

\* The tuples of the records of metric m that extract without error.
RECURSIVE ExpectedFrom(_, _)
ExpectedFrom(m, r) ==
    IF r > Len(MetricResult[m]) THEN <<>>
    ELSE LET lv == getLabelValues(metrics[m].VarLabels, MetricResult[m][r], gateway,
                                  labelValueRenames)
             rv == getResultValue(metrics[m].ResultKey, MetricResult[m][r],
                                  metrics[m].OkValue)
         IN (IF lv.panic \/ rv.err THEN <<>>
             ELSE <<[Value |-> rv.v, LabelValues |-> lv.labelValues]>>)
            \o ExpectedFrom(m, r + 1)

\* C4: when a pass is over, every metric has emitted the tuples of all its
\* records that extract without error, also when the record of another
\* metric had an extraction error.
C4_ExtractionErrorIsLocal ==
    pc = "idle" => \A m \in 1..NumMetrics : emitted[m] = ExpectedFrom(m, 1)

\* The index invocations metric m has made in this pass.
IsIndexRef(e, m) == e.m = m /\ e.actionArg.set
IndexRefs(m) == LET Test(e) == IsIndexRef(e, m) IN SelectSeq(refLog, Test)

\* The count an indexed metric with a provider obtains: the named field of
\* the provider's result of this pass, when the provider lookup of the
\* metric did not fail and the field is an unsigned integer.
ProviderKey(m) ==
    cacheKey(metrics[m].Service, metrics[m].ActionArgument.ProviderAction, NoActionArgument)
ProviderValue(m) ==
    MapGet(CacheGet(cachedResults, ProviderKey(m)), metrics[m].ActionArgument.Value)
IndexedByProvider(m) ==
    /\ metrics[m].ActionArgument.set
    /\ metrics[m].ActionArgument.IsIndex
    /\ metrics[m].ActionArgument.ProviderAction # ""
    /\ \A k \in 1..Len(callLog) :
          (callLog[k].m = m /\ callLog[k].use = "provider") => ~callLog[k].err
    /\ ProviderValue(m).t = "uint64"

\* Metric m has been handled by request in the pass that is running.
Finished(m) == m < mi

\* C5: an indexed metric whose provider field is N invokes its target action
\* with the argument values 0, 1, ... in ascending order, never more than N
\* times, and when its request has returned it has made exactly N
\* invocations and holds at most N result records, exactly N when none of
\* the invocations failed.
C5_IndexedResolution ==
    \A m \in 1..NumMetrics :
        IndexedByProvider(m) =>
            LET refs == IndexRefs(m)
                n == ProviderValue(m).n
            IN /\ Len(refs) <= n
               /\ \A k \in 1..Len(refs) :
                     /\ refs[k].serviceType = metrics[m].Service
                     /\ refs[k].actionName = metrics[m].Action
                     /\ refs[k].actionArg.Name = metrics[m].ActionArgument.Name
                     /\ refs[k].actionArg.Value = IntVal(k - 1)
               /\ Finished(m) =>
                     /\ Len(refs) = n
                     /\ Len(MetricResult[m]) <= n
                     /\ ~TargetFailed(m) => Len(MetricResult[m]) = n

\* C5 witness: an indexed metric with count 2 has returned with two
\* invocations and two records of successful invocations.
C5_Witness ==
    \E m \in 1..NumMetrics :
        /\ IndexedByProvider(m)
        /\ ProviderValue(m).n = 2
        /\ Finished(m)
        /\ Len(IndexRefs(m)) = 2
        /\ Len(MetricResult[m]) = 2
        /\ \A r \in 1..2 : ~MetricResult[m][r].nil

\* C6: a metric with an argument that is not an index has, when its request
\* has returned, invoked its target action once with that argument name.
C6_NonIndexArgumentInvokedOnce ==
    \A m \in 1..NumMetrics :
        (metrics[m].ActionArgument.set /\ ~metrics[m].ActionArgument.IsIndex /\ Finished(m))
        => Cardinality({k \in 1..Len(refLog) :
                          /\ refLog[k].m = m
                          /\ refLog[k].actionName = metrics[m].Action
                          /\ refLog[k].actionArg.set
                          /\ refLog[k].actionArg.Name = metrics[m].ActionArgument.Name}) = 1

\* C7: every entry of the cache was stored by a successful call of the pass
\* that is running, and every reference of the pass to a discovered action
\* that has returned was preceded by a call for its key in this pass: no
\* reference is answered with a result of an earlier pass.
C7_CacheOfThisPassOnly ==
    /\ \A key \in DOMAIN cachedResults :
          \E k \in CallsOf(key) : ~callLog[k].err
    /\ \A i \in 1..Len(refLog) :
          RefDone(i) /\ RefKnown(refLog[i]) => CallsOf(RefKey(refLog[i])) # {}

\* C7 witness: in a pass that follows a completed pass (tuples of it exist)
\* a key was invoked again.
C7_Witness ==
    /\ pc \in {"request", "lookup", "loop", "do1", "do2"}
    /\ \E m \in 1..NumMetrics : PromResult[m] # <<>>
    /\ \E k \in 1..Len(callLog) : ~callLog[k].err

\* C8: a call issues at most two POSTs; the second one is pending only after
\* a first one; and a call that has returned after a retry which was not
\* answered with 200 has returned an error and stored nothing.
C8_RetryExactlyOnce ==
    /\ posts <= 2
    /\ pc = "do2" => posts = 1
    /\ (CallReturned /\ posts = 2 /\ (resp.err \/ resp.StatusCode # 200)) =>
          /\ callLog # <<>>
          /\ callLog[Len(callLog)].err

\* C8 witness: a call has returned after its retry was answered with 401.
C8_Witness ==
    /\ CallReturned
    /\ posts = 2
    /\ ~resp.err
    /\ resp.StatusCode = 401

\* The first response of the call is a 401 that cannot be negotiated: a
\* credential is empty, or the challenge is absent or not a Digest one.
HardFailure401 ==
    /\ posts = 1
    /\ ~resp.err
    /\ resp.StatusCode = 401
    /\ (Username = "" \/ Password = "" \/ wwwAuth.prefix # "Digest ")

\* C9: a call whose first response is such a 401 sends no retry, returns an
\* error after its one POST, and leaves the cached header as it was when
\* the call attached it to the request.
C9_HardFailureOn401 ==
    /\ (pc = "do2" \/ posts = 2) =>
          (Username # "" /\ Password # "" /\ wwwAuth.prefix = "Digest ")
    /\ (CallReturned /\ HardFailure401) =>
          /\ callLog # <<>>
          /\ callLog[Len(callLog)].err
          /\ AuthHeader = req.Authorization

Negotiated == fnIn.fn = "getDigestAuthHeader" /\ fnOut.done /\ ~fnOut.err

\* C11: the header a negotiation produces is determined by the user, the
\* password, the realm and the nonce of the challenge, the control URL and
\* the client nonce: its response field is
\* MD5(MD5(user:realm:pass):nonce:00000001:cnonce:auth:MD5(POST:controlURL))
\* and its nonce count is 00000001, also when a header of an earlier
\* negotiation is cached.
C11_DigestResponse ==
    Negotiated =>
        LET h == fnOut.AuthHeader
            ha1 == MD5(fnIn.username \o ":" \o fnIn.challenge.realm \o ":" \o fnIn.password)
            ha2 == MD5("POST:" \o fnIn.controlURL)
        IN /\ h.nc = "00000001"
           /\ h.response = MD5(ha1 \o ":" \o fnIn.challenge.nonce \o ":00000001:"
                                   \o fnIn.cnonce \o ":auth:" \o ha2)
           /\ h.username = fnIn.username
           /\ h.realm = fnIn.challenge.realm
           /\ h.nonce = fnIn.challenge.nonce
           /\ h.cnonce = fnIn.cnonce
           /\ h.uri = fnIn.controlURL

\* C11 witness: a negotiation after an earlier one, for another nonce, has
\* produced a header.
C11_Witness ==
    /\ Negotiated
    /\ fnIn.old = EarlierHeader
    /\ fnIn.challenge.nonce # fnIn.old.nonce
    /\ fnOut.AuthHeader # fnIn.old

\* The challenge of the first response is a Digest one the negotiation does
\* not support: an algorithm other than MD5, or a qop other than "auth".
UnsupportedChallenge ==
    /\ wwwAuth.prefix = "Digest "
    /\ (wwwAuth.algorithm \notin {"", "MD5"} \/ wwwAuth.qop # "auth")

FinalStatusNot200 ==
    /\ CallReturned
    /\ posts > 0
    /\ ~resp.err
    /\ resp.StatusCode # 200

\* C13: a call whose final response has a status other than 200 has
\* returned an error, and the cache holds no entry for its key.
C13_Non200IsError ==
    FinalStatusNot200 =>
        /\ callLog # <<>>
        /\ callLog[Len(callLog)].err
        /\ callLog[Len(callLog)].key \notin DOMAIN cachedResults

\* C13 witness: a call has returned after a 500 that answered its
\* authenticated retry, while the cache holds a result of another call.
C13_Witness ==
    /\ FinalStatusNot200
    /\ resp.StatusCode = 500
    /\ posts = 2
    /\ cachedResults # EmptyCache

\* parseSoapResponse has been applied on its own and returned a record.
Parsed ==
    /\ fnIn.fn = "parseSoapResponse"
    /\ fnOut.done
    /\ ~fnOut.err

\* The start elements of the parsed body that name an argument of the
\* given direction related to state variable f.
ElementsFor(f, directions) ==
    {i \in 1..Len(fnIn.body) :
        /\ fnIn.body[i].k = "start"
        /\ \E a \in 1..Len(Services["WAN"].Actions[fnIn.action]) :
              LET arg == Services["WAN"].Actions[fnIn.action][a] IN
              /\ arg.Name = fnIn.body[i].v
              /\ arg.Direction \in directions
              /\ arg.RelatedStateVariable = f}

\* C14: every value in the record that parseSoapResponse returns is keyed
\* by the state variable of an output argument that a start element of the
\* body names; elements of input arguments contribute nothing.
C14_OnlyOutputArguments ==
    Parsed => \A f \in Fields : MapHas(fnOut.rec, f) => ElementsFor(f, {"out"}) # {}

\* C15: a body that is the one element <NewValue>n</NewValue>, NewValue
\* being an output argument related to the ui4 state variable Value, parses
\* without error to the record {Value: uint64 n}.
C15_RoundTrip ==
    \A n \in 0..MaxUint64 :
        (/\ fnIn.fn = "parseSoapResponse"
         /\ fnOut.done
         /\ fnIn.body = Elem("NewValue", Itoa(n)))
        => /\ ~fnOut.err
           /\ fnOut.rec = MapSet(EmptyMap, "Value", U64Val(n))

\* C15 witness: <NewValue>12</NewValue> has been parsed to {Value: uint64 12},
\* a value above the largest 32-bit one.
C15_Witness ==
    /\ Parsed
    /\ fnIn.body = Elem("NewValue", "12")
    /\ 12 > MaxUint32
    /\ fnOut.rec = MapSet(EmptyMap, "Value", U64Val(12))

\* convertResult has been applied on its own.
Converted ==
    /\ fnIn.fn = "convertResult"
    /\ fnOut.done

\* The texts of the model that are no decimal number.
NoNumber == {"", "abc", "true", "1.5", "-", "+"}

\* C16: string, dateTime and uuid text is returned unchanged; boolean is
\* true exactly for the text "1"; ui1, ui2 and ui4 give the unsigned 64-bit
\* value of a decimal text up to the largest uint64, also above the largest
\* 32-bit value; i4 gives the signed 64-bit value; any other type, and any
\* text that is no number of the range (the empty text included), is an error.
C16_Coercion ==
    Converted =>
        LET val == fnIn.val
            dt == fnIn.dataType
        IN /\ dt \in {"string", "dateTime", "uuid"} =>
                 ~fnOut.err /\ fnOut.v = StrVal(val)
           /\ dt = "boolean" =>
                 ~fnOut.err /\ fnOut.v = BoolVal(val = "1")
           /\ dt \in {"ui1", "ui2", "ui4"} =>
                 /\ \A n \in 0..MaxUint64 :
                       val = Itoa(n) => ~fnOut.err /\ fnOut.v = U64Val(n)
                 /\ \A n \in (MaxUint64 + 1)..(MaxUint64 + 2) :
                       val = Itoa(n) => fnOut.err
                 /\ \A n \in 0..(MaxUint64 + 2) :
                       val \in {"-" \o Itoa(n), "+" \o Itoa(n)} => fnOut.err
                 /\ val \in NoNumber => fnOut.err
                 /\ ~fnOut.err => fnOut.v.t = "uint64" /\ fnOut.v.n \in 0..MaxUint64
           /\ dt = "i4" =>
                 /\ \A n \in MinInt64..MaxInt64 :
                       val = Itoa(n) => ~fnOut.err /\ fnOut.v = I64Val(n)
                 /\ \A n \in (MaxInt64 + 1)..(MaxUint64 + 2) :
                       val = Itoa(n) => fnOut.err
                 /\ \A n \in (MaxInt64 + 2)..(MaxUint64 + 2) :
                       val = "-" \o Itoa(n) => fnOut.err
                 /\ val \in NoNumber => fnOut.err
                 /\ ~fnOut.err => fnOut.v.t = "int64" /\ fnOut.v.n \in MinInt64..MaxInt64
           /\ dt \notin {"string", "dateTime", "uuid", "boolean", "ui1", "ui2", "ui4", "i4"} =>
                 fnOut.err

\* C16 witness: a ui4 text one above the largest 32-bit value has been
\* converted to that uint64.
C16_Witness ==
    /\ Converted
    /\ fnIn.dataType = "ui4"
    /\ fnIn.val = Itoa(MaxUint32 + 1)
    /\ ~fnOut.err
    /\ fnOut.v = U64Val(MaxUint32 + 1)

\* getResultValue has been applied on its own.
Extracted ==
    /\ fnIn.fn = "getResultValue"
    /\ fnOut.done

\* The value the record of the application holds under the selected key.
SelectedValue == MapGet(fnIn.result, IF fnIn.key = "" THEN "result" ELSE fnIn.key)

\* C17: extraction reads the configured key ("result" when none is
\* configured); a numeric value gives itself, a boolean 1 or 0, a string 1
\* exactly when it equals the ok-value; any other type and an absent key
\* give an error.
C17_Extraction ==
    Extracted =>
        CASE SelectedValue.t \in {"float64", "int", "uint64", "int64"} ->
                ~fnOut.err /\ fnOut.v = SelectedValue.n
          [] SelectedValue.t = "bool" ->
                ~fnOut.err /\ fnOut.v = (IF SelectedValue = BoolVal(TRUE) THEN 1 ELSE 0)
          [] SelectedValue.t = "string" ->
                ~fnOut.err /\ fnOut.v = (IF SelectedValue.s = fnIn.okValue THEN 1 ELSE 0)
          [] OTHER -> fnOut.err

\* The value the first record of the first metric holds under the metric's
\* result key.
FirstValue == MapGet(MetricResult[1][1], metrics[1].ResultKey)

\* A pass is over in which the first metric obtained a record whose result
\* key holds a value of a type that convertResult produces, and whose
\* labels are strings.
FirstRecordCoerced ==
    /\ pc = "idle"
    /\ Len(MetricResult[1]) >= 1
    /\ FirstValue.t \in {"string", "bool", "uint64", "int64"}
    /\ ~getLabelValues(metrics[1].VarLabels, MetricResult[1][1], gateway,
                       labelValueRenames).panic

\* C18: a record whose result key holds a string, a boolean, an unsigned or
\* a signed 64-bit value is emitted with a numeric value; a signed 64-bit
\* value from an i4 state variable is emitted as that number.
C18_CoercedTypesAccepted ==
    FirstRecordCoerced =>
        /\ Len(emitted[1]) >= 1
        /\ FirstValue.t \in {"uint64", "int64"} => emitted[1][1].Value = FirstValue.n

\* Record r of metric m has no string under label l of the metric, a label
\* other than "gateway".
LabelUnusable(m, r, l) ==
    /\ metrics[m].VarLabels[l] # "gateway"
    /\ MapGet(MetricResult[m][r], metrics[m].VarLabels[l]).t # "string"

\* C19: when a record lacks the field of a declared label, or holds a value
\* there that is no string, the extraction of the pass returns an error and
\* the pass does not end abnormally.
C19_LabelErrorIsReturned ==
    (\E m \in 1..NumMetrics : \E r \in 1..Len(MetricResult[m]) :
        \E l \in 1..Len(metrics[m].VarLabels) : LabelUnusable(m, r, l))
    => pc # "panic"

\* renameLabel has been applied on its own.
Renamed ==
    /\ fnIn.fn = "renameLabel"
    /\ fnOut.done

\* The rules of the application that match the label value it was given.
MatchingOriginal ==
    {i \in 1..Len(fnIn.labelRenames) : fnIn.labelValue \in fnIn.labelRenames[i].Matches}

Last(S) == CHOOSE i \in S : \A j \in S : j <= i

\* C20 as stated: the renamed value is the replacement of the last rule, in
\* declaration order, that matches the label value, and the label value
\* itself when no rule matches it.
C20_LastMatchingWins ==
    Renamed =>
        fnOut.labelValue =
            IF MatchingOriginal = {} THEN fnIn.labelValue
            ELSE fnIn.labelRenames[Last(MatchingOriginal)].RenameLabel

\* The runs of the rules over the value: t[i] is the value after the first
\* i rules, each rule overwriting the value the rules before it left when
\* its pattern matches that value.
RenameRuns ==
    {t \in [0..Len(fnIn.labelRenames) -> RenameValues] :
        /\ t[0] = fnIn.labelValue
        /\ \A i \in 1..Len(fnIn.labelRenames) :
              t[i] = IF t[i - 1] \in fnIn.labelRenames[i].Matches
                     THEN fnIn.labelRenames[i].RenameLabel
                     ELSE t[i - 1]}

\* C20, amended: the rules are applied in declaration order, each matched
\* against the value as the rules before it left it and overwriting it when
\* it matches; the renamed value is the replacement of the last rule that
\* matched at its turn, and the label value itself when no rule matches it.
C20_SequentialOverwrite ==
    Renamed =>
        /\ \E t \in RenameRuns :
              LET Applied == {i \in 1..Len(fnIn.labelRenames) :
                                 t[i - 1] \in fnIn.labelRenames[i].Matches}
              IN fnOut.labelValue =
                    IF Applied = {} THEN fnIn.labelValue
                    ELSE fnIn.labelRenames[Last(Applied)].RenameLabel
        /\ MatchingOriginal = {} => fnOut.labelValue = fnIn.labelValue

\* C20 witness: "eth0" is matched by two rules, ^eth.* (lan) and then
\* ^eth0$ (wan); the second no longer matches after the first has renamed,
\* and the value is "lan".
C20_Witness ==
    /\ Renamed
    /\ fnIn.labelValue = "eth0"
    /\ Len(fnIn.labelRenames) = 2
    /\ fnIn.labelRenames[1].MatchRegex = "^eth.*"
    /\ fnIn.labelRenames[2].MatchRegex = "^eth0$"
    /\ MatchingOriginal = {1, 2}
    /\ fnOut.labelValue = "lan"

\* What lowercase(rename(v)) is for the label values of the records, under
\* the one configured rule {match ^eth.*, replace "lan"}.
LoweredRenamed(v) ==
    CASE v = "eth0" -> "lan"
      [] v = "Eth0" -> "eth0"
      [] v = "fritz.box" -> "fritz.box"
      [] OTHER -> "?"

\* The label values that contain an uppercase letter.
WithUppercase == {"Eth0", "Up"}

\* C21: the label values of every tuple are, position by position over the
\* declared label names, lowercase(rename(v)) with v the gateway hostname
\* for "gateway" and the record's field of that name otherwise: one entry per
\* declared label, none with an uppercase letter, and "eth0" became "lan".
C21_LabelValues ==
    \A m \in 1..NumMetrics : \A k \in 1..Len(PromResult[m]) :
        LET lv == PromResult[m][k].LabelValues
            names == metrics[m].VarLabels
        IN /\ Len(lv) = Len(names)
           /\ \A i \in 1..Len(names) :
                 /\ lv[i] \notin WithUppercase
                 /\ lv[i] = LoweredRenamed(IF names[i] = "gateway" THEN gateway
                                           ELSE MetricResult[m][k].m[names[i]].s)

\* C21 witness: a pass is over in which a record with Name "eth0" gave the
\* label values <<"fritz.box", "lan">> and one with Name "Eth0" gave
\* <<"fritz.box", "eth0">>.
C21_Witness ==
    /\ pc = "idle"
    /\ Len(emitted[1]) = 2
    /\ metrics[1].VarLabels = <<"gateway", "Name">>
    /\ MetricResult[1][1].m["Name"] = StrVal("eth0")
    /\ emitted[1][1].LabelValues = <<"fritz.box", "lan">>
    /\ MetricResult[1][2].m["Name"] = StrVal("Eth0")
    /\ emitted[1][2].LabelValues = <<"fritz.box", "eth0">>

\* Fetch number i of the discovery, or the decode of what it fetched, failed.
FetchFailed(i) == fnIn.outcome[fetches[i]] # "ok"

\* The service types declared in a device and its descendants.
DeclaredTypes(device) ==
    {ServicesInOrder(device)[i].ServiceType : i \in 1..Len(ServicesInOrder(device))}

\* C22: discovery is all-or-nothing: no descriptor or schema is fetched after
\* a fetch or decode has failed, the discovery has failed exactly when its
\* last fetch failed, and a collector exists only when every descriptor and
\* every schema was fetched and decoded, the index then being complete.
C22_AllOrNothing ==
    fnIn.fn = "LoadServices" =>
        /\ \A i \in 1..(Len(fetches) - 1) : ~FetchFailed(i)
        /\ pc = "failed" <=> (fetches # <<>> /\ FetchFailed(Len(fetches)))
        /\ pc = "idle" =>
              /\ \A i \in 1..Len(fetches) : ~FetchFailed(i)
              /\ Len(fetches) = 2 + Len(ServicesInOrder(Device))
              /\ DOMAIN exporterServices = DeclaredTypes(Device)

\* C22 witness: the discovery has failed at the second schema, with one
\* service in the index and a schema left that would not decode either.
C22_Witness ==
    /\ fnIn.fn = "LoadServices"
    /\ pc = "failed"
    /\ Len(fetches) = 4
    /\ DOMAIN exporterServices = {"WAN"}
    /\ Len(ServicesInOrder(Device)) = 5
    /\ fnIn.outcome[ServicesInOrder(Device)[3].SCPDUrl] = "decode"

\* A collector has been constructed by a discovery.
Constructed == fnIn.fn = "LoadServices" /\ pc = "idle"

\* The services declared in a device and its descendants, and their types.
RECURSIVE ServicesIn(_)
ServicesIn(device) ==
    {device.Services[i] : i \in 1..Len(device.Services)}
    \cup UNION {ServicesIn(device.SubDevices[i]) : i \in 1..Len(device.SubDevices)}
TypesIn(device) == {service.ServiceType : service \in ServicesIn(device)}

\* The position of the fetch of a schema, and the order of two sets of
\* services in the fetches.
FetchOf(service) == CHOOSE i \in 1..Len(fetches) : fetches[i] = service.SCPDUrl
FetchedBefore(A, B) == \A a \in A, b \in B : FetchOf(a) < FetchOf(b)

\* The schemas of a device were fetched depth-first: its own services in
\* their order, then its sub-devices one after the other, each depth-first.
RECURSIVE DepthFirst(_)
DepthFirst(device) ==
    /\ \A i, j \in 1..Len(device.Services) :
          i < j => FetchOf(device.Services[i]) < FetchOf(device.Services[j])
    /\ \A i \in 1..Len(device.SubDevices) :
          /\ FetchedBefore({device.Services[k] : k \in 1..Len(device.Services)},
                           ServicesIn(device.SubDevices[i]))
          /\ \A j \in 1..Len(device.SubDevices) :
                i < j => FetchedBefore(ServicesIn(device.SubDevices[i]),
                                       ServicesIn(device.SubDevices[j]))
          /\ DepthFirst(device.SubDevices[i])

StateVariableNames(service) ==
    {service.StateVariables[i].Name : i \in 1..Len(service.StateVariables)}

\* C24: for every service of the index and every action of it, the keys of
\* the ArgumentMap are exactly the names of the action's arguments, every
\* entry is an argument of the action with that name (the argument itself
\* when its name is used once), and every argument whose relatedStateVariable
\* names a state variable of the service is linked to a state variable of the
\* service with that name.
C24_ArgumentMapAndLinks ==
    \A t \in DOMAIN exporterServices : \A n \in DOMAIN exporterServices[t].Actions :
        LET service == exporterServices[t]
            action == service.Actions[n]
            args == action.Arguments
        IN /\ DOMAIN action.ArgumentMap = {args[i].Name : i \in 1..Len(args)}
           /\ \A k \in DOMAIN action.ArgumentMap :
                 \E i \in 1..Len(args) : args[i].Name = k /\ action.ArgumentMap[k] = args[i]
           /\ \A i \in 1..Len(args) :
                 /\ (\A j \in 1..Len(args) : args[j].Name = args[i].Name => j = i)
                      => action.ArgumentMap[args[i].Name] = args[i]
                 /\ args[i].RelatedStateVariable \in StateVariableNames(service) =>
                      /\ args[i].StateVariable # NoStateVariable
                      /\ args[i].StateVariable.Name = args[i].RelatedStateVariable
                      /\ \E v \in 1..Len(service.StateVariables) :
                            service.StateVariables[v] = args[i].StateVariable

\* C24 witness: the discovered service LAN has the action GetLan, whose
\* argument NewUp is in the ArgumentMap with a link to the state variable Up,
\* and whose argument NewRate, of an undeclared state variable, has no link;
\* the service WAN has its input argument NewIndex in the ArgumentMap.
C24_Witness ==
    /\ Constructed
    /\ {"WAN", "LAN"} \subseteq DOMAIN exporterServices
    /\ "GetLan" \in DOMAIN exporterServices["LAN"].Actions
    /\ exporterServices["LAN"].Actions["GetLan"].ArgumentMap["NewUp"].StateVariable
          = StateVariable("Up", "boolean")
    /\ exporterServices["LAN"].Actions["GetLan"].ArgumentMap["NewRate"].StateVariable
          = NoStateVariable
    /\ exporterServices["WAN"].Actions["GetEntry"].ArgumentMap["NewIndex"].Direction = "in"

\* IsGetOnly has been applied on its own.
GetOnlyApplied == fnIn.fn = "IsGetOnly" /\ fnOut.done

\* The directions of the arguments of the action it was applied to.
DirectionsOf(action) == {action.Arguments[i].Direction : i \in 1..Len(action.Arguments)}

ProviderRefs(m) ==
    {i \in 1..Len(refLog) :
        /\ refLog[i].m = m
        /\ ~refLog[i].actionArg.set
        /\ metrics[m].ActionArgument.set
        /\ refLog[i].actionName = metrics[m].ActionArgument.ProviderAction
        /\ RefDone(i)}

\* The provider action of the indexed metric m was not found, or its
\* invocation failed, or its result has no field of the configured name.
ProviderFailure(m) ==
    /\ metrics[m].ActionArgument.set
    /\ metrics[m].ActionArgument.IsIndex
    /\ metrics[m].ActionArgument.ProviderAction # ""
    /\ \E i \in ProviderRefs(m) :
          \/ lookupAction(exporterServices, refLog[i].serviceType, refLog[i].actionName) # ""
          \/ \E k \in 1..Len(callLog) :
                callLog[k].m = m /\ callLog[k].use = "provider" /\ callLog[k].err
          \/ ~MapHas(CacheGet(cachedResults, ProviderKey(m)), metrics[m].ActionArgument.Value)

\* C28: when the provider action of an indexed metric is not found, fails, or
\* gives no field of the configured name, the error counter has been raised,
\* the metric makes no target invocation and has no record, and the pass goes
\* on: when Exporter.Collect returns, every later metric has been requested.
C28_ProviderFailureTolerated ==
    \A m \in 1..NumMetrics :
        ProviderFailure(m) =>
            /\ collectErrors > errors0
            /\ m \in failed
            /\ IndexRefs(m) = <<>>
            /\ (Finished(m) \/ pc \in {"extract", "emit", "idle", "panic"})
                  => MetricResult[m] = <<>>
            /\ pc = "gateway" => \A j \in (m + 1)..NumMetrics : Reached(j)

\* C28 witness: the provider action of the first metric is not in the index,
\* Exporter.Collect has returned, and the second metric has its record.
C28_Witness ==
    /\ pc = "gateway"
    /\ ProviderFailure(1)
    /\ metrics[1].ActionArgument.ProviderAction = "GetNone"
    /\ MetricResult[1] = <<>>
    /\ Len(MetricResult[2]) = 1
    /\ ~MetricResult[2][1].nil

\* C30: in and after every collection pass, whatever its invocations came
\* to, the descriptors and the schema have been fetched once, and the device
\* tree, the service index, every ArgumentMap and every state-variable link
\* are those the discovery built.
C30_DiscoveryOnce ==
    /\ fetches = <<"/igddesc.xml", "/tr64desc.xml", WanDesc.SCPDUrl>>
    /\ Device = ModelDevice
    /\ exporterServices = ServicesPut(NoServices, fillService(WanDesc, WanScpd))
    /\ \A n \in DOMAIN exporterServices["WAN"].Actions :
          LET action == exporterServices["WAN"].Actions[n] IN
          /\ DOMAIN action.ArgumentMap = {action.Arguments[i].Name : i \in 1..Len(action.Arguments)}
          /\ \A i \in 1..Len(action.Arguments) :
                action.Arguments[i].StateVariable =
                    StateVariable(action.Arguments[i].RelatedStateVariable,
                                  StateVariables[action.Arguments[i].RelatedStateVariable])

\* C30 witness: Exporter.Collect has returned from a pass in which an
\* invocation has succeeded and a lookup has missed the index.
C30_Witness ==
    /\ collectErrors > errors0
    /\ pc = "gateway"
    /\ \E k \in 1..Len(callLog) : ~callLog[k].err
    /\ \E i \in 1..Len(refLog) :
          lookupAction(exporterServices, refLog[i].serviceType, refLog[i].actionName) # ""

\* ------------------------------------------------ call, from entry to return
\* What call returns and the cached header it leaves.
Outcome(result, err, authHeader) ==
    [result |-> result, err |-> err, AuthHeader |-> authHeader]

\* call from the check of the final status on, for the final response r
finishOf(action, r, authHeader) ==
    IF r.err \/ r.StatusCode # 200 THEN Outcome(NilMap, TRUE, authHeader)
    ELSE LET parsed == parseSoapResponse(action.Arguments, r.body)
         IN Outcome(IF parsed.err THEN NilMap ELSE parsed.rec, parsed.err, authHeader)

\* call as a whole: every outcome the device's answers to the first POST and
\* to the authenticated retry (both drawn from responses) can produce, given
\* the cached header before.
callOutcomes(rev, authHeader, controlURL, action, username, password, responses) ==
    UNION {
        IF r1.err THEN {Outcome(NilMap, TRUE, authHeader)}
        ELSE IF r1.StatusCode # 401 THEN {finishOf(action, r1, authHeader)}
        ELSE IF r1.wwwAuth = NoChallenge \/ username = "" \/ password = ""
        THEN {Outcome(NilMap, TRUE, authHeader)}
        ELSE UNION {
            LET d == getDigestAuthHeader(authHeader, controlURL, r1.wwwAuth,
                                         username, password, cnonce)
                h == headerAfterNegotiation(rev, d)
            IN IF d.err THEN {Outcome(NilMap, TRUE, h)}
               ELSE {finishOf(action, r2, h) : r2 \in responses}
            : cnonce \in CNonces}
        : r1 \in responses}

\* --------------------------------------------- scrapes at the same time
\* promhttp.Handler() gathers from the registered collector on the goroutine
\* of every HTTP request, and Collector.Collect takes no lock: two requests
\* to /metrics run Collector.Collect on the same collector at the same time.
\* A goroutine's steps are the calls of Collector.Collect; each is taken as a
\* whole. The metrics of this specification have no action argument.
Goroutines == {1, 2}

NoResults == [m \in 1..NumMetrics |-> <<>>]

\* A goroutine in Collector.Collect: its position, the cache of its
\* Exporter.Collect, the records its own calls returned and what it has sent
\* to the registry.
Scrape(p, m, cache, collected, sent) ==
    [pc |-> p, mi |-> m, cachedResults |-> cache, collected |-> collected, sent |-> sent]

\* what no goroutine in Collector.Collect changes
concurrentFrame ==
    UNCHANGED <<config, fnVars, discoveryVars, exporters, jsonContent, SID, cachedResults, pc, mi,
                allResults, value, count, idx, cur, callVars, callLog, refLog, failed,
                errors0, emitted>>

\* a scrape request arrives: Collector.Collect, collect and Exporter.Collect
\* up to the range loop
scrapeCollect(t) ==
    /\ scrapes[t].pc \in {"idle", "sent"}
    /\ scrapes' = [scrapes EXCEPT ![t] = Scrape("collect", 1, EmptyCache, NoResults, NoResults)]
    /\ UNCHANGED <<AuthHeader, collectErrors, MetricResult, PromResult>>
    /\ concurrentFrame

\* Exporter.Collect, one iteration of the range loop: the metric's result is
\* cleared, request and getActionResult run, the result is stored.
scrapeRequest(t) ==
    LET s == scrapes[t]
        m == metrics[s.mi]
        key == cacheKey(m.Service, m.Action, NoActionArgument)
        cacheEntry == CacheGet(s.cachedResults, key)
        outcomes ==
            IF ~cacheEntry.nil THEN {Outcome(cacheEntry, FALSE, AuthHeader)}
            ELSE IF lookupAction(exporterServices, m.Service, m.Action) # ""
            THEN {Outcome(NilMap, TRUE, AuthHeader)}
            ELSE callOutcomes(revision, AuthHeader, exporterServices[m.Service].ControlURL,
                              exporterServices[m.Service].Actions[m.Action],
                              Username, Password, Responses(m.Action))
    IN /\ s.pc = "collect"
       /\ \E o \in outcomes :
            /\ AuthHeader' = o.AuthHeader
            /\ collectErrors' = collectErrors + (IF o.err THEN 1 ELSE 0)
            /\ collectErrors' <= MaxErrors
            /\ MetricResult' = [MetricResult EXCEPT ![s.mi] = <<o.result>>]
            /\ scrapes' = [scrapes EXCEPT ![t] =
                 Scrape(IF s.mi = NumMetrics THEN "gateway" ELSE "collect", s.mi + 1,
                        IF o.err \/ ~cacheEntry.nil THEN s.cachedResults
                        ELSE CachePut(s.cachedResults, key, o.result),
                        [s.collected EXCEPT ![s.mi] = <<o.result>>], s.sent)]
       /\ UNCHANGED PromResult
       /\ concurrentFrame

\* Collector.addGatewayGeneric on the result lists as they are now; the
\* assignment to a nil map panics and ends the process.
scrapeAddGatewayGeneric(t) ==
    /\ scrapes[t].pc = "gateway"
    /\ IF \E m \in 1..NumMetrics : \E r \in 1..Len(MetricResult[m]) : MetricResult[m][r].nil
       THEN /\ scrapes' = [u \in Goroutines |-> [scrapes[u] EXCEPT !.pc = "panic"]]
            /\ UNCHANGED MetricResult
       ELSE /\ scrapes' = [scrapes EXCEPT ![t].pc = "extract"]
            /\ MetricResult' =
                 [m \in 1..NumMetrics |->
                    [r \in 1..Len(MetricResult[m]) |->
                        MapSet(MetricResult[m][r], "gateway", StrVal(gateway))]]
    /\ UNCHANGED <<AuthHeader, collectErrors, PromResult>>
    /\ concurrentFrame

\* Collector.getResult on the result lists as they are now
scrapeGetResult(t) ==
    /\ scrapes[t].pc = "extract"
    /\ LET g == getResultFrom(metrics, MetricResult, 1, 1, PromResult) IN
       /\ PromResult' = g.prom
       /\ scrapes' = IF g.st = "panic"
                     THEN [u \in Goroutines |-> [scrapes[u] EXCEPT !.pc = "panic"]]
                     ELSE [scrapes EXCEPT ![t].pc = "emit"]
    /\ UNCHANGED <<AuthHeader, collectErrors, MetricResult>>
    /\ concurrentFrame

\* Collector.Collect: the loop that sends every PromResult, as it is now, to
\* the registry
scrapeEmit(t) ==
    /\ scrapes[t].pc = "emit"
    /\ scrapes' = [scrapes EXCEPT ![t].pc = "sent", ![t].sent = PromResult]
    /\ UNCHANGED <<AuthHeader, collectErrors, MetricResult, PromResult>>
    /\ concurrentFrame

InitConcurrent ==
    /\ fnIn = NoInput
    /\ fnOut = NoOutput
    /\ revision = "part_003"
    /\ metrics = <<MCount, MStatus>>
    /\ Username = "user"
    /\ Password = "secret"
    /\ Discovered
    /\ Fresh
    /\ scrapes = [t \in Goroutines |-> Scrape("idle", 0, EmptyCache, NoResults, NoResults)]
    /\ exporters = NoExporters
    /\ jsonContent = <<>>
    /\ SID = ""

NextConcurrent ==
    \/ \E t \in Goroutines : scrapeCollect(t)
    \/ \E t \in Goroutines : scrapeRequest(t)
    \/ \E t \in Goroutines : scrapeAddGatewayGeneric(t)
    \/ \E t \in Goroutines : scrapeGetResult(t)
    \/ \E t \in Goroutines : scrapeEmit(t)

SpecConcurrent == InitConcurrent /\ [][NextConcurrent]_vars

\* C26: two overlapping scrapes of the same collector are serialized, so a
\* pass that has sent its tuples to the registry has sent exactly the tuples
\* built from the records its own calls returned.
OwnTuples(t) ==
    getResultFrom(metrics,
                  [m \in 1..NumMetrics |->
                     [r \in 1..Len(scrapes[t].collected[m]) |->
                        MapSet(scrapes[t].collected[m][r], "gateway", StrVal(gateway))]],
                  1, 1, NoResults).prom
C26_Serialized ==
    \A t \in Goroutines : scrapes[t].pc = "sent" => scrapes[t].sent = OwnTuples(t)

\* ------------------------------------------- two exporters in one process
\* NewUpnpCollector makes one Exporter per call; a process that serves two
\* devices holds two. The newer revision keeps the cached header in the field
\* Exporter.AuthHeader, the older one in the package variable authHeader,
\* which the variable AuthHeader stands for here. Each device challenges
\* with its own realm.
Targets == {"A", "B"}
Realm == [e \in Targets |-> IF e = "A" THEN "box" ELSE "box2"]

\* What the device of exporter e answers
TargetResponses(e) ==
    {IF r.wwwAuth = NoChallenge THEN r ELSE [r EXCEPT !.wwwAuth.realm = Realm[e]] :
        r \in Responses("GetInfo")}

\* An Exporter: its field AuthHeader, the header its last call attached to
\* the first POST, and what that call returned.
ExporterOf(authHeader, attached, result, err) ==
    [AuthHeader |-> authHeader, attached |-> attached, result |-> result, err |-> err]

\* the cached header exporter e reads and writes
cachedHeader(rev, e) == IF rev = "part_002" THEN AuthHeader ELSE exporters[e].AuthHeader

\* exporter e calls WAN.GetInfo on its device: call from entry to return
exporterCall(e) ==
    LET service == exporterServices["WAN"]
        before == cachedHeader(revision, e)
    IN \E o \in callOutcomes(revision, before, service.ControlURL, service.Actions["GetInfo"],
                             Username, Password, TargetResponses(e)) :
        /\ exporters' = [exporters EXCEPT ![e] =
              ExporterOf(IF revision = "part_002" THEN @.AuthHeader ELSE o.AuthHeader,
                         firstRequest(before).Authorization, o.result, o.err)]
        /\ AuthHeader' = IF revision = "part_002" THEN o.AuthHeader ELSE AuthHeader
        /\ UNCHANGED <<config, fnVars, discoveryVars, scrapes, jsonContent, SID, collectErrors,
                       MetricResult, PromResult, cachedResults, pc, mi, allResults, value,
                       count, idx, cur, callVars, callLog, refLog, failed, errors0, emitted>>

InitTargets ==
    /\ fnIn = NoInput
    /\ fnOut = NoOutput
    /\ revision \in Revisions
    /\ metrics = <<MCount, MStatus>>
    /\ Username = "user"
    /\ Password = "secret"
    /\ Discovered
    /\ Fresh
    /\ scrapes = NoScrapes
    /\ exporters = [e \in Targets |-> ExporterOf(NoHeader, NoHeader, NilMap, FALSE)]
    /\ jsonContent = <<>>
    /\ SID = ""

NextTargets == \E e \in Targets : exporterCall(e)

SpecTargets == InitTargets /\ [][NextTargets]_vars

\* C27: the cached auth header is state of one exporter instance: the header
\* an exporter attaches to a request is empty or one that it negotiated with
\* its own device, whatever the other exporter has negotiated.
C27_HeaderPerExporter ==
    \A e \in Targets : exporters[e].attached.realm \in {"", Realm[e]}

\* ------------------------------------------------------------ CollectAll
\* The bytes of the service types and action names of the modelled devices.
Bytes(str) ==
    CASE str = "Hosts" -> <<72, 111, 115, 116, 115>>
      [] str = "LAN" -> <<76, 65, 78>>
      [] str = "WAN" -> <<87, 65, 78>>
      [] str = "WLAN" -> <<87, 76, 65, 78>>
      [] str = "GetEntry" -> <<71, 101, 116, 69, 110, 116, 114, 121>>
      [] str = "GetInfo" -> <<71, 101, 116, 73, 110, 102, 111>>
      [] str = "GetHost" -> <<71, 101, 116, 72, 111, 115, 116>>
      [] str = "GetLan" -> <<71, 101, 116, 76, 97, 110>>
      [] str = "GetLan2" -> <<71, 101, 116, 76, 97, 110, 50>>
      [] str = "GetSsid" -> <<71, 101, 116, 83, 115, 105, 100>>
      [] str = "Reset" -> <<82, 101, 115, 101, 116>>
      [] OTHER -> <<>>

\* The order of Go strings: byte by byte, a proper prefix first.
RECURSIVE bytesLess(_, _, _)
bytesLess(a, b, i) ==
    IF i > Len(b) THEN FALSE
    ELSE IF i > Len(a) THEN TRUE
    ELSE IF a[i] # b[i] THEN a[i] < b[i]
    ELSE bytesLess(a, b, i + 1)
stringLess(a, b) == bytesLess(Bytes(a), Bytes(b), 1)

\* a sort into descending order
RECURSIVE sortStrings_Descending(_)
sortStrings_Descending(keys) ==
    IF keys = {} THEN <<>>
    ELSE LET last == CHOOSE k \in keys : \A other \in keys \ {k} : stringLess(other, k)
         IN <<last>> \o sortStrings_Descending(keys \ {last})

\* sort.Strings of the keys of a map
RECURSIVE sortStrings(_)
sortStrings(keys) ==
    IF keys = {} THEN <<>>
    ELSE LET first == CHOOSE k \in keys : \A other \in keys \ {k} : stringLess(k, other)
         IN <<first>> \o sortStrings(keys \ {first})

\* CollectAll: the (serviceKey, actionKey) of the two nested range loops, in
\* the order the loops visit them.
RECURSIVE scanFrom(_, _, _)
scanFrom(services, serviceKeys, i) ==
    IF i > Len(serviceKeys) THEN <<>>
    ELSE LET actionKeys == sortStrings(DOMAIN services[serviceKeys[i]].Actions)
         IN [k \in 1..Len(actionKeys) |-> <<serviceKeys[i], actionKeys[k]>>]
            \o scanFrom(services, serviceKeys, i + 1)
scanOrder(services) == scanFrom(services, sortStrings(DOMAIN services), 1)

\* collectEntry; Result is the map of the call or the map with the one key
\* "error" (error is "" in the map of a call).
collectEntry(service, action, arguments, error, result) ==
    [Service |-> service, Action |-> action, Arguments |-> arguments,
     Result |-> [error |-> error, m |-> result]]
NotCalling == "... not calling since arguments required or no output"

\* The devices of a scan: the descriptors, and at most one fetch that fails.
ScanInputs ==
    {[fn |-> "CollectAll", igddesc |-> igd, tr64desc |-> tr64, outcome |-> o] :
        igd \in IgdDocs, tr64 \in Tr64Docs,
        o \in {f \in [Urls -> Outcomes] : Cardinality({u \in Urls : f[u] # "ok"}) <= 1}}

scanFrame ==
    UNCHANGED <<config, fnVars, discoveryVars, scrapes, exporters, SID, collectErrors, MetricResult,
                PromResult, cachedResults, allResults, value, count, idx, cur, callVars,
                refLog, failed, errors0, emitted>>

\* CollectAll after LoadServices has returned nil: the empty jsonContent and
\* the sorted keys.
CollectAll ==
    /\ pc = "fill"
    /\ fnIn.fn = "CollectAll"
    /\ schemasFetched = Len(ServicesInOrder(Device))
    /\ jsonContent' = <<>>
    /\ mi' = 1
    /\ pc' = IF scanOrder(exporterServices) = <<>> THEN "written" ELSE "scan"
    /\ UNCHANGED <<AuthHeader, callLog>>
    /\ scanFrame

\* CollectAll: the body of the inner loop for the next action, the call
\* included.
collectAction ==
    /\ pc = "scan"
    /\ LET order == scanOrder(exporterServices)
           serviceKey == order[mi][1]
           service == exporterServices[serviceKey]
           action == service.Actions[order[mi][2]]
       IN /\ IF ~IsGetOnly(action)
             THEN /\ jsonContent' = Append(jsonContent,
                        collectEntry(serviceKey, action.Name, action.Arguments,
                                     NotCalling, EmptyMap))
                  /\ UNCHANGED <<AuthHeader, callLog>>
             ELSE \E o \in callOutcomes(revision, AuthHeader, service.ControlURL, action,
                                        Username, Password, Responses(action.Name)) :
                  /\ AuthHeader' = o.AuthHeader
                  /\ callLog' = Append(callLog, <<serviceKey, action.Name>>)
                  /\ jsonContent' = Append(jsonContent,
                        collectEntry(serviceKey, action.Name, action.Arguments,
                                     IF o.err THEN "FAILED" ELSE "",
                                     IF o.err THEN EmptyMap ELSE o.result))
          /\ mi' = mi + 1
          /\ pc' = IF mi = Len(order) THEN "written" ELSE "scan"
    /\ scanFrame

InitScan ==
    /\ fnIn \in ScanInputs
    /\ fnOut = NoOutput
    /\ revision = "part_003"
    /\ metrics = <<>>
    /\ Username = "user"
    /\ Password = "secret"
    /\ Device = NoDevice
    /\ exporterServices = NoServices
    /\ fetches = <<>>
    /\ Single
    /\ AuthHeader = NoHeader
    /\ collectErrors = 0
    /\ MetricResult = <<>>
    /\ PromResult = <<>>
    /\ cachedResults = EmptyCache
    /\ pc = "igddesc"
    /\ mi = 0
    /\ allResults = <<>>
    /\ value = NilVal
    /\ count = 0
    /\ idx = 0
    /\ cur = NoCall
    /\ req = NoRequest
    /\ resp = NoResponse
    /\ wwwAuth = NoChallenge
    /\ posts = 0
    /\ callLog = <<>>
    /\ refLog = <<>>
    /\ failed = {}
    /\ errors0 = 0
    /\ emitted = <<>>

NextScan ==
    \/ loadIgddesc
    \/ loadTr64desc
    \/ fillServicesForDevice
    \/ CollectAll
    \/ collectAction

SpecScan == InitScan /\ [][NextScan]_vars

\* C29: CollectAll calls only actions that have at least one argument and no
\* "in" argument; every other action is reported with the error entry and
\* is not called; the entries are one per (service type, action name) of the
\* index, in ascending order of the service type and then of the action
\* name; and the scan goes on after a failed call.
IndexPairs ==
    UNION {{<<t, a>> : a \in DOMAIN exporterServices[t].Actions} : t \in DOMAIN exporterServices}
EntryPair(i) == <<jsonContent[i].Service, jsonContent[i].Action>>
PairLess(p, q) == stringLess(p[1], q[1]) \/ (p[1] = q[1] /\ stringLess(p[2], q[2]))
PureGetter(pair) ==
    LET arguments == exporterServices[pair[1]].Actions[pair[2]].Arguments
    IN /\ Len(arguments) >= 1
       /\ \A k \in 1..Len(arguments) : arguments[k].Direction # "in"
Called == {callLog[i] : i \in 1..Len(callLog)}
C29_ScanCallsGettersOnly ==
    pc \in {"scan", "written"} =>
        /\ \A pair \in Called : pair \in IndexPairs /\ PureGetter(pair)
        /\ \A i \in 1..Len(jsonContent) :
              /\ EntryPair(i) \in IndexPairs
              /\ IF PureGetter(EntryPair(i))
                 THEN EntryPair(i) \in Called /\ jsonContent[i].Result.error \in {"", "FAILED"}
                 ELSE EntryPair(i) \notin Called /\ jsonContent[i].Result.error = NotCalling
        /\ \A i, j \in 1..Len(jsonContent) : i < j => PairLess(EntryPair(i), EntryPair(j))
        /\ pc = "scan" => Len(jsonContent) = mi - 1 /\ mi <= Cardinality(IndexPairs)
        /\ pc = "written" => {EntryPair(i) : i \in 1..Len(jsonContent)} = IndexPairs
C29_Witness ==
    /\ pc = "written"
    /\ Cardinality(DOMAIN exporterServices) >= 3
    /\ \E i \in 1..(Len(jsonContent) - 1), j \in 1..Len(jsonContent) :
          /\ jsonContent[i].Result.error = "FAILED"
          /\ i < j
          /\ jsonContent[j].Result.error = ""
    /\ \E i \in 1..Len(jsonContent) :
          /\ jsonContent[i].Result.error = NotCalling
          /\ jsonContent[i].Arguments = <<>>
    /\ \E i \in 1..Len(jsonContent) :
          /\ jsonContent[i].Result.error = NotCalling
          /\ \E k \in 1..Len(jsonContent[i].Arguments) :
                jsonContent[i].Arguments[k].Direction = "in"

\* C31: after a start element of a body that matches a declared argument,
\* the next token decides: character data gives its text to the
\* conversion, an end element gives the empty text, and any other token, or
\* none, makes the parse fail with no record.
ParseApplied == fnIn.fn = "parseSoapResponse" /\ fnOut.done
ParseArguments == ArgumentMap(Services["WAN"].Actions[fnIn.action])
MatchedStart(i) ==
    /\ i \in 1..Len(fnIn.body)
    /\ fnIn.body[i].k = "start"
    /\ fnIn.body[i].v \in DOMAIN ParseArguments
TextAfter(i) == IF fnIn.body[i + 1].k = "chars" THEN fnIn.body[i + 1].v ELSE ""
C31_NextTokenDecides ==
    ParseApplied =>
        \A i \in 1..Len(fnIn.body) : MatchedStart(i) =>
            LET sv == ParseArguments[fnIn.body[i].v].RelatedStateVariable IN
            IF i + 1 <= Len(fnIn.body) /\ fnIn.body[i + 1].k \in {"chars", "end"}
            THEN LET converted == convertResult(TextAfter(i), StateVariables[sv]) IN
                 /\ converted.err => fnOut.err /\ fnOut.rec = NilMap
                 /\ (~fnOut.err /\ \A j \in (i + 1)..Len(fnIn.body) :
                                      MatchedStart(j) =>
                                         ParseArguments[fnIn.body[j].v].RelatedStateVariable # sv)
                       => MapGet(fnOut.rec, sv) = converted.v
            ELSE fnOut.err /\ fnOut.rec = NilMap
\* C31 witness: <NewName></NewName> followed by <NewName><Other> has been
\* parsed: an immediate end, then a nested start element.
C31_Witness ==
    /\ ParseApplied
    /\ fnIn.body = <<Start("NewName"), End("NewName"), Start("NewName"), Start("Other")>>
    /\ fnOut.err
    /\ fnOut.rec = NilMap

\* ------------------------------------------- passes of one catalog
\* The scrape of the catalog whose first metric reads the count of GetInfo
\* and whose second metric is indexed by that count.
InitPasses ==
    /\ Single
    /\ fnIn = NoInput
    /\ fnOut = NoOutput
    /\ revision \in Revisions
    /\ metrics = <<MCount, MIndexed>>
    /\ Username = "user"
    /\ Password = "secret"
    /\ Discovered
    /\ Fresh

SpecPasses == InitPasses /\ [][Next]_vars

\* C32: every tuple a pass has sent to the registry for a metric was built
\* from a record of that metric collected in the same pass.
BuiltFrom(m, tuple, record) ==
    LET lv == getLabelValues(metrics[m].VarLabels, record, gateway, labelValueRenames)
        rv == getResultValue(metrics[m].ResultKey, record, metrics[m].OkValue)
    IN /\ ~lv.panic
       /\ ~rv.err
       /\ tuple = [Value |-> rv.v, LabelValues |-> lv.labelValues]
C32_TuplesOfThisPass ==
    \A m \in 1..NumMetrics : \A i \in 1..Len(emitted[m]) :
        \E r \in 1..Len(MetricResult[m]) : BuiltFrom(m, emitted[m][i], MetricResult[m][r])

\* ------------------------------------------------ the JSON/session backend
\* A metric of the lua collector: the page it requests and the key of its
\* value ("" is the key "result").
LuaMetric(page, key) ==
    [Page |-> page, ResultKey |-> key, OkValue |-> "", VarLabels |-> <<"gateway">>]
LuaCatalog == <<LuaMetric("overview", "Count"), LuaMetric("netDev", "")>>

\* gjson.Result at the metric's ResultPath: an array of objects, each with or
\* without the metric's key, or one number.
JObj(has, n) == [has |-> has, n |-> n]
JArr(elems) == [k |-> "array", elems |-> elems, n |-> 0]
JNum(n) == [k |-> "number", elems |-> <<>>, n |-> n]
JsonResults ==
    {JArr(<<>>), JArr(<<JObj(TRUE, 1)>>), JArr(<<JObj(TRUE, 1), JObj(FALSE, 0)>>),
     JArr(<<JObj(TRUE, 2), JObj(TRUE, 1)>>), JNum(2)}

\* lua Exporter.getLabelValues: every label is read from the JSON element,
\* which has none of them.
luaLabelValues(result, labelNames) ==
    [nil |-> FALSE,
     m |-> [f \in Fields |->
              IF \E i \in 1..Len(labelNames) : labelNames[i] = f THEN StrVal("")
              ELSE result.m[f]]]

\* extractMetricValuesFromJSON, the loop over the elements of an array
RECURSIVE extractFrom(_, _, _, _)
extractFrom(elems, i, key, labelNames) ==
    IF i > Len(elems) THEN <<>>
    ELSE IF key = ""
    THEN <<luaLabelValues(MapSet(EmptyMap, "result", IntVal(1)), labelNames)>>
         \o extractFrom(elems, i + 1, key, labelNames)
    ELSE IF elems[i].has
    THEN <<luaLabelValues(MapSet(EmptyMap, key, F64Val(elems[i].n)), labelNames)>>
         \o extractFrom(elems, i + 1, key, labelNames)
    ELSE extractFrom(elems, i + 1, key, labelNames)

\* extractMetricValuesFromJSON
extractMetricValuesFromJSON(jsonResult, key, labelNames) ==
    IF jsonResult.k = "array" THEN extractFrom(jsonResult.elems, 1, key, labelNames)
    ELSE <<luaLabelValues(MapSet(EmptyMap, IF key = "" THEN "result" ELSE key,
                                 F64Val(jsonResult.n)), labelNames)>>

\* The session ids a logon can store: none in the answer, the id of a
\* refused logon, a valid id.
SessionIds == {"", "0000000000000000", "a1b2c3d4e5f60718"}

\* What the two requests of a logon come to: a transport error of the first
\* or of the second, an answer that decodes to no session (the nil pointer
\* is then read), or the session id of the second answer.
LogonOutcomes == {"transport1", "transport2", "nosession"} \cup SessionIds

\* What a page request comes to: a transport error, a status other than
\* 200, or the JSON of the page.
PageFailure(kind) == [k |-> kind, elems |-> <<>>, n |-> 0]
PageFailures == {PageFailure("transport"), PageFailure("rejected")}

\* a logon at the start of every pass
needsLogon_Always(sid) == TRUE

\* logon: `if exporter.SID == ""`
needsLogon(sid) == sid = ""

luaFrame ==
    UNCHANGED <<config, fnVars, discoveryVars, scrapes, exporters, jsonContent, AuthHeader,
                collectErrors, PromResult, cachedResults, allResults, value, count, idx,
                cur, callVars>>

\* Collector.Collect is entered by a scrape: collect, lua Exporter.Collect and
\* its logon, up to the range loop or to the return of the error.
luaLogon ==
    /\ pc = "idle"
    /\ refLog' = <<>>
    /\ errors0' = collectErrors
    /\ emitted' = [m \in 1..NumMetrics |-> <<>>]
    /\ IF ~needsLogon(SID)
       THEN /\ callLog' = <<>>
            /\ failed' = {}
            /\ pc' = "page"
            /\ mi' = 1
            /\ UNCHANGED SID
       ELSE \E o \in LogonOutcomes :
            /\ callLog' = IF o = "transport1" THEN <<"login">> ELSE <<"login", "login">>
            /\ failed' = IF o \in SessionIds THEN {} ELSE {0}
            /\ pc' = CASE o \in SessionIds -> "page"
                       [] o = "nosession" -> "panic"
                       [] OTHER -> "gateway"
            /\ mi' = IF o \in SessionIds THEN 1 ELSE 0
            /\ SID' = IF o \in SessionIds THEN o ELSE SID
    /\ UNCHANGED MetricResult
    /\ luaFrame

\* lua Exporter.Collect, one iteration of the range loop: the result list is
\* cleared, the page is requested, the values are extracted.
luaRequest ==
    /\ pc = "page"
    /\ callLog' = Append(callLog, "data")
    /\ \E o \in PageFailures \cup JsonResults :
          IF o \in PageFailures
          THEN /\ MetricResult' = [MetricResult EXCEPT ![mi] = <<>>]
               /\ failed' = failed \cup {mi}
               /\ pc' = "gateway"
               /\ UNCHANGED mi
          ELSE /\ MetricResult' = [MetricResult EXCEPT ![mi] =
                     extractMetricValuesFromJSON(o, metrics[mi].ResultKey,
                                                 metrics[mi].VarLabels)]
               /\ pc' = IF mi = NumMetrics THEN "gateway" ELSE "page"
               /\ mi' = mi + 1
               /\ UNCHANGED failed
    /\ UNCHANGED <<SID, refLog, errors0, emitted>>
    /\ luaFrame

InitLua ==
    /\ Single
    /\ fnIn = NoInput
    /\ fnOut = NoOutput
    /\ revision = "part_003"
    /\ metrics = LuaCatalog
    /\ Username = "user"
    /\ Password = "secret"
    /\ Discovered
    /\ Fresh

NextLua ==
    \/ luaLogon
    \/ luaRequest
    \/ addGatewayGeneric
    \/ getResult
    \/ emit

SpecLua == InitLua /\ [][NextLua]_vars

\* C33: when the logon or the page request of metric i has failed in a pass,
\* the result lists of the metrics after i are empty in that pass and none
\* of them is sent a tuple (0 stands for the logon).
C33_LaterListsEmpty ==
    \A i \in failed : \A m \in 1..NumMetrics :
        m > i => MetricResult[m] = <<>> /\ emitted[m] = <<>>

\* C36: while a session id is stored no logon request is sent and the
\* stored id stays, whatever the page requests come to.
IsLogon(i, log) == i \in 1..Len(log) /\ log[i] = "login"
C36_LogonOnlyWithoutSession ==
    [][SID # "" =>
          /\ SID' = SID
          /\ \A i \in 1..Len(callLog') : IsLogon(i, callLog') => IsLogon(i, callLog)]_vars
\* C36 witness: a pass that found a session id stored has sent its page
\* request without a logon, the device has rejected it, and the pass is over.
C36_Witness ==
    /\ pc = "idle"
    /\ SID = "a1b2c3d4e5f60718"
    /\ callLog = <<"data">>
    /\ failed = {1}

\* C34: a call that fails leaves the cache as it was; the cache holds a key
\* only after a successful call for it in this pass; and while every call
\* for a key has failed, every reference to that key in this pass has
\* issued a call of its own.
KnownRefsOf(key) ==
    {i \in 1..Len(refLog) : RefDone(i) /\ RefKnown(refLog[i]) /\ RefKey(refLog[i]) = key}
PassKeys == {RefKey(refLog[i]) : i \in 1..Len(refLog)}
C34_Cache ==
    /\ \A key \in DOMAIN cachedResults : \E k \in CallsOf(key) : ~callLog[k].err
    /\ \A key \in PassKeys :
          (\A k \in CallsOf(key) : callLog[k].err) =>
              /\ key \notin DOMAIN cachedResults
              /\ Cardinality(CallsOf(key)) = Cardinality(KnownRefsOf(key))
C34_Step ==
    (Len(callLog') = Len(callLog) + 1 /\ callLog'[Len(callLog')].err)
        => cachedResults' = cachedResults
C34_FailureNotCached == [](C34_Cache) /\ [][C34_Step]_vars
\* C34 witness: two references of a pass to the same key have each issued a
\* call, both calls have failed, and the cache holds nothing.
C34_Witness ==
    /\ \E j, k \in 1..Len(callLog) :
          /\ j < k
          /\ callLog[j].key = callLog[k].key
          /\ callLog[j].err
          /\ callLog[k].err
    /\ cachedResults = EmptyCache

\* ------------------------------------------- a device with two services
\* The scrape of a device whose descriptor declares the service WAN and, in
\* a sub-device, the service LAN, each with its own control URL; the catalog
\* has one metric on each.
MLan == Metric("LAN", "GetLan", NoArgument, "Up", "", <<"gateway">>)
TwoServices == ServicesPut(LoadedServices, fillService(LanDesc, Schemas[LanDesc.SCPDUrl]))

InitServices ==
    /\ Single
    /\ fnIn = NoInput
    /\ fnOut = NoOutput
    /\ revision \in Revisions
    /\ metrics = <<MIndexed, MLan>>
    /\ Username = "user"
    /\ Password = "secret"
    /\ Device = DeviceDesc(<<WanDesc>>, <<DeviceDesc(<<LanDesc>>, <<>>)>>)
    /\ exporterServices = TwoServices
    /\ fetches = <<"/igddesc.xml", "/tr64desc.xml", WanDesc.SCPDUrl, LanDesc.SCPDUrl>>
    /\ Fresh

SpecServices == InitServices /\ [][Next]_vars

\* C35: a request that is about to be posted with an Authorization header
\* carries, as uri and inside the response digest (HA2), the control URL of
\* the service it is posted to.
PostedTo == exporterServices[cur.serviceType].ControlURL
ResponseFor(h, controlURL) ==
    MD5(MD5(h.username \o ":" \o h.realm \o ":" \o Password) \o ":" \o h.nonce \o ":"
        \o h.nc \o ":" \o h.cnonce \o ":" \o h.qop \o ":" \o MD5("POST:" \o controlURL))
C35_HeaderOfThePostedService ==
    (pc \in {"do1", "do2"} /\ req.Authorization # NoHeader) =>
        /\ req.Authorization.uri = PostedTo
        /\ req.Authorization.response = ResponseFor(req.Authorization, PostedTo)

\* C37: two references that differ in the service, the action, the name or
\* the text of the value of the argument, or in having an argument, have
\* different cache keys, and a record stored for the first, a reference to
\* a discovered action, is not returned for the second.
RefsDiffer(a, b) ==
    \/ a.serviceType # b.serviceType
    \/ a.actionName # b.actionName
    \/ a.actionArg.set # b.actionArg.set
    \/ /\ a.actionArg.set
       /\ b.actionArg.set
       /\ \/ a.actionArg.Name # b.actionArg.Name
          \/ SprintV(a.actionArg.Value) # SprintV(b.actionArg.Value)
C37_DistinctKeys ==
    (/\ fnIn.fn = "cacheKey"
     /\ fnOut.done
     /\ RefsDiffer(fnIn.a, fnIn.b)
     /\ lookupAction(exporterServices, fnIn.a.serviceType, fnIn.a.actionName) = "")
        => fnOut.a # fnOut.b /\ ~fnOut.hit

====
